---- MODULE Spec2Model ----
(***************************************************************************)
(* Verification model of marccgrau/synthetic_conversation.                 *)
(*                                                                         *)
(*  SpecPipeline  seeded_chain/call_script_generation.py main()            *)
(*  SpecTerm      sequential_conversation/utils.py termination_msg()       *)
(*  SpecChat      sequential_conversation/conversation_manager.py          *)
(*  SpecScenario  sequential_conversation/scenario_loader.py (task files)  *)
(*  SpecPersona   sequential_conversation/scenario_loader.py (persona)     *)
(***************************************************************************)
EXTENDS Integers, Sequences, FiniteSets, TLC

(***************************************************************************)
(* Bounds of the model.                                                    *)
(***************************************************************************)
\* largest number of (topic, example) pairs one pipeline run iterates
MaxPairs == 4

\* largest number of calls in one file of the aggregated folder
MaxCallsPerFile == 2

\* calls of aggregate_json_files on one folder
MaxAggRuns == 2

\* largest number of conversations in one file read by filter_conversations
MaxConvsPerFile == 2

\* largest top_n passed to filter_conversations
MaxTopN == 2

\* largest number of pieces a configured model name is put together from
MaxNameParts == 2

\* iterations of the conversation simulation (args.iterations)
MaxIterations == 2

\* selections in a row the inner speaker-selection function is asked for
MaxSelections == 3

\* runs of cleanup_json_files over one directory
MaxCleanRuns == 2

\* processes of the conversation simulation started against one store
MaxIndexRuns == 3

(***************************************************************************)
(* Generation pipeline: state.                                             *)
(***************************************************************************)
VARIABLES
  schema,                       \* load_schema(config.SCHEMA_SCRIPT)
  topics,                       \* the topics iterated by the outer loop
  random_examples,              \* the examples iterated by the inner loop
  ti, ei,                       \* positions of the two for loops (1-based)
  pc,                           \* position of main() inside the loop body
  generated_resolved_script,
  generated_unresolved_script,
  validated_resolved_script,
  validated_unresolved_script,
  new_calls,                    \* the accepted list
  output_json,                  \* what save_json wrote ("calls" array)
  aggregated,                   \* aggregate_json_files has run
  uuid_counter,                 \* number of uuid.uuid4() values drawn
  gen_invocations,              \* generation chain invocations made
  visited,                      \* (topic, example) pairs entered, in order
  pair_start,                   \* len(new_calls) when the current pair was entered
  rejected,                     \* call_ids of the scripts validate_json returned False for
  last                          \* how the pair left most recently ended

pvars == <<schema, topics, random_examples, ti, ei, pc,
           generated_resolved_script, generated_unresolved_script,
           validated_resolved_script, validated_unresolved_script,
           new_calls, output_json, aggregated, uuid_counter,
           gen_invocations, visited, pair_start, rejected, last>>

(***************************************************************************)
(* termination_msg, the conversation engine, the scenario loaders: state.  *)
(***************************************************************************)
VARIABLES
  term_pc,                      \* "call" before, "returned" after termination_msg(x)
  term_x,                       \* the argument x
  term_result,                  \* the returned bool
  variant,                      \* "run_conversation" or the archived script
  chat_state,                   \* AWAITING_INITIAL, IN_PROGRESS, TERMINATED, ROUND_LIMIT_REACHED
  groupchat_messages,           \* groupchat.messages
  round,                        \* the loop index of the group chat manager
  chat_result,                  \* what initiate_chat returned
  scen_pc,                      \* "call", "returned" or "raised"
  loader,                       \* the scenario loader that ran
  tasks_de, tasks_en,           \* topics_actionable_items of config/tasks_{de,en}.yaml
  selected_topic,
  selected_task,
  config,                       \* the YAML files under config/ the loaders read
  scenario                      \* the dict a loader returned (selected_task apart)

tvars == <<term_pc, term_x, term_result>>
cvars == <<variant, chat_state, groupchat_messages, round, chat_result>>
svars == <<scen_pc, loader, tasks_de, tasks_en, selected_topic, selected_task,
           config, scenario>>

(***************************************************************************)
(* aggregate_json_files (utils.py): state.                                 *)
(***************************************************************************)
VARIABLES
  agg_pc,                       \* "call", "loop", "returned" or "raised"
  input_folder,                 \* file name -> parsed content of the file
  listing,                      \* os.listdir(input_folder) of the current run
  file_idx,                     \* position of the for loop in listing
  aggregated_data,
  output_file,                  \* what the run wrote to output_file
  agg_runs                      \* calls of aggregate_json_files made

avars == <<agg_pc, input_folder, listing, file_idx, aggregated_data,
           output_file, agg_runs>>

(***************************************************************************)
(* filter_conversations (evaluation/filter_conversations.py): state.       *)
(***************************************************************************)
VARIABLES
  filt_pc,                      \* "read", "evaluate", "sort" or "returned"
  json_files,                   \* the files glob found, in glob order
  media_type,                   \* the media_type argument ("None" when not given)
  top_n,
  file_pos,                     \* position of the loop over json_files
  all_conversations,
  conv_pos,                     \* position of the loop over all_conversations
  evaluated_conversations,      \* (score, conv) pairs
  filtered_file                 \* what the run wrote

fvars == <<filt_pc, json_files, media_type, top_n, file_pos, all_conversations,
           conv_pos, evaluated_conversations, filtered_file>>

(***************************************************************************)
(* get_llm (seeded_chain/models.py): state.                                *)
(***************************************************************************)
VARIABLES
  llm_pc,                       \* "call", "returned" or "raised"
  config_MODEL_NAME,            \* config.MODEL_NAME
  llm                           \* the constructed model: its class and model name

lvars == <<llm_pc, config_MODEL_NAME, llm>>

(***************************************************************************)
(* Start of a pipeline run (call_script_generation.py main, lines 40-65,   *)
(* and the import of generation_chains.py): state.                         *)
(***************************************************************************)
VARIABLES
  topics_file,                  \* the file at config.TOPICS
  examples_file,                \* the file at input_path
  schema_file,                  \* the file at config.SCHEMA_SCRIPT
  FIXED_TOPICS,                 \* config.FIXED_TOPICS
  NUM_TOPIC_SAMPLES,            \* config.NUM_TOPIC_SAMPLES
  NUM_EXAMPLE_SAMPLES,          \* config.NUM_EXAMPLE_SAMPLES
  startup_error                 \* the statement that raised, "none" when none did

uvars == <<topics_file, examples_file, schema_file, FIXED_TOPICS,
           NUM_TOPIC_SAMPLES, NUM_EXAMPLE_SAMPLES, startup_error>>

(***************************************************************************)
(* Conversation simulation (sequential_conversation/main.py): state.       *)
(***************************************************************************)
VARIABLES
  sim_pc,                       \* position in main and save_results
  args,                         \* iterations, agent_type, scenario
  sampling_raises,              \* the scenario files make the loader raise
  sim_round,                    \* iteration of the loop over range(iterations)
  results,                      \* main's results list
  results_file,                 \* the results file: written, conversations
  sim_error,                    \* the statement whose error left main
  sim_error_round,              \* the iteration it was raised in
  invocation_failed,            \* a model invocation of the run has raised
  sim_uuid_counter              \* uuid.uuid4() values drawn by save_results

mvars == <<sim_pc, args, sampling_raises, sim_round, results, results_file,
           sim_error, sim_error_round, invocation_failed, sim_uuid_counter>>

(***************************************************************************)
(* Inner group chat of the society-of-mind agent                           *)
(* (som_service_agent_creator.py, create_inner_groupchat): state.          *)
(***************************************************************************)
VARIABLES
  inner_state,                  \* state of the inner chat session
  inner_messages,               \* groupchat.messages of the inner chat
  inner_round,                  \* round of the inner manager's loop
  inner_last_speaker            \* last_speaker handed to the selection function

ivars == <<inner_state, inner_messages, inner_round, inner_last_speaker>>

(***************************************************************************)
(* cleanup_json_files (push_hf/cleanup_convos.py): state.                  *)
(***************************************************************************)
VARIABLES
  clean_pc,                     \* "call", "loop" or "returned"
  directory,                    \* file name -> content of the file on disk
  directory0,                   \* the directory before the first run
  clean_files,                  \* json_files of the current run
  clean_pos,                    \* position of the loop over json_files
  clean_run,                    \* runs started so far
  rewritten,                    \* (run, file) pairs: the files a run wrote
  clean_uuid_counter            \* uuid.uuid4() values drawn

kvars == <<clean_pc, directory, directory0, clean_files, clean_pos, clean_run,
           rewritten, clean_uuid_counter>>

(***************************************************************************)
(* Index population (index_manager.py): state.                             *)
(***************************************************************************)
VARIABLES
  proc_pc,                      \* process -> its position in main
  store,                        \* collection -> chroma_collection.count()
  store0,                       \* the store before the first process
  populated,                    \* collection -> times an index was created
  index_calls,                  \* collection -> calls of its get_..._index
  overlap,                      \* a process was started while another ran
  index_runs                    \* processes started so far

xvars == <<proc_pc, store, store0, populated, index_calls, overlap, index_runs>>

\* the state of the subsystems modelled after the conversation simulation
nvars == <<ivars, kvars, xvars>>

\* the state outside the pipeline, termination_msg, the chat and the loaders
evars == <<avars, fvars, lvars, uvars, mvars, nvars>>

vars == <<pvars, tvars, cvars, svars, evars>>

(***************************************************************************)
(* Documents.  A JSON value returned by JsonOutputParser is a dict with a  *)
(* set of keys, or a value that is no dict (a list, a string).  The fields *)
(* call_id .. instruct_lang carry a value only when their key is in keys.  *)
(***************************************************************************)
ContentKeys == {"messages", "callback_note"}
MetaKeys == {"call_id", "model", "examples", "topic", "resolved", "instruct_lang"}

MODEL_NAME == "gpt-4o-mini"
INSTRUCT_LANG == "en"
InputFileName == "dialogsum_final_eval.json"

Doc(isDict, keys) ==
  [is_dict |-> isDict, keys |-> keys, call_id |-> 0, model |-> "",
   examples |-> "", topic |-> 0, resolved |-> FALSE, instruct_lang |-> ""]

None == Doc(FALSE, {"None"})

\* what the generation chains can return
GenDocs == { Doc(TRUE, ContentKeys), Doc(TRUE, {"messages"}) }

\* what the validation chain can return: a complete script, a script with a
\* missing field, a script in which the model wrote its own call_id, no dict
ValDocs == { Doc(TRUE, ContentKeys), Doc(TRUE, {"messages"}),
             Doc(TRUE, ContentKeys \cup {"call_id"}), Doc(FALSE, {}) }

\* the schema documents a run can be started with
Schemas ==
  { [well_formed |-> TRUE, required |-> ContentKeys,
     properties |-> ContentKeys, additionalProperties |-> TRUE],
    [well_formed |-> TRUE, required |-> {"messages"},
     properties |-> ContentKeys, additionalProperties |-> FALSE],
    [well_formed |-> FALSE, required |-> {},
     properties |-> {}, additionalProperties |-> TRUE] }

\* jsonschema.validate(instance, schema) does not raise ValidationError
Conforms(data, sch) ==
  /\ data.is_dict
  /\ sch.required \subseteq data.keys
  /\ (sch.additionalProperties \/ data.keys \subseteq sch.properties)

validate_json(data, sch) == Conforms(data, sch)

\* mutant: a call_id the model wrote into the script is kept
AddMetadata_keep(script, id, topic, resolved) ==
  [script EXCEPT !.keys = @ \cup MetaKeys,
                 !.call_id = IF "call_id" \in script.keys THEN script.call_id ELSE id,
                 !.model = MODEL_NAME,
                 !.examples = InputFileName,
                 !.topic = topic,
                 !.resolved = resolved,
                 !.instruct_lang = INSTRUCT_LANG]

\* lines 115-120 / 122-127: the six item assignments on one script
AddMetadata(script, id, topic, resolved) ==
  [script EXCEPT !.keys = @ \cup MetaKeys,
                 !.call_id = id,
                 !.model = MODEL_NAME,
                 !.examples = InputFileName,
                 !.topic = topic,
                 !.resolved = resolved,
                 !.instruct_lang = INSTRUCT_LANG]

NoLast == [raised |-> "none", gated_resolved |-> FALSE, gated_unresolved |-> FALSE,
           accepted |-> 0]

\* the pair the loops stand at, and whether the loops have a pair at all
LoopStart(ts, es) == IF Len(ts) > 0 /\ Len(es) > 0 THEN "gen_resolved" ELSE "save"

PipelineStart ==
  /\ schema \in Schemas
  /\ \E nT \in 0..MaxPairs, nE \in 0..MaxPairs :
       /\ nT * nE <= MaxPairs
       /\ topics = [i \in 1..nT |-> i]
       /\ random_examples = [i \in 1..nE |-> i]
  /\ ti = 1
  /\ ei = 1
  /\ pc = LoopStart(topics, random_examples)
  /\ generated_resolved_script = None
  /\ generated_unresolved_script = None
  /\ validated_resolved_script = None
  /\ validated_unresolved_script = None
  /\ new_calls = << >>
  /\ output_json = [written |-> FALSE, calls |-> << >>]
  /\ aggregated = FALSE
  /\ uuid_counter = 0
  /\ gen_invocations = 0
  /\ visited = IF LoopStart(topics, random_examples) = "save" THEN << >> ELSE << <<1, 1>> >>
  /\ pair_start = 0
  /\ rejected = {}
  /\ last = NoLast

\* mutant: the loops are nested the other way round, examples outside
NextPair_example_major(how) ==
  /\ pair_start' = Len(new_calls')
  /\ generated_resolved_script' = None
  /\ generated_unresolved_script' = None
  /\ validated_resolved_script' = None
  /\ validated_unresolved_script' = None
  /\ last' = how
  /\ IF ti < Len(topics)
       THEN /\ ti' = ti + 1
            /\ ei' = ei
            /\ pc' = "gen_resolved"
            /\ visited' = Append(visited, <<ti + 1, ei>>)
       ELSE IF ei < Len(random_examples)
         THEN /\ ei' = ei + 1
              /\ ti' = 1
              /\ pc' = "gen_resolved"
              /\ visited' = Append(visited, <<1, ei + 1>>)
         ELSE /\ pc' = "save"
              /\ UNCHANGED <<ti, ei, visited>>

\* `continue` / end of the loop body: the next example, else the next topic,
\* else the code after the loops.  The scripts of the pair are rebound by
\* the next iteration before they are read again.
NextPair(how) ==
  /\ pair_start' = Len(new_calls')
  /\ generated_resolved_script' = None
  /\ generated_unresolved_script' = None
  /\ validated_resolved_script' = None
  /\ validated_unresolved_script' = None
  /\ last' = how
  /\ IF ei < Len(random_examples)
       THEN /\ ei' = ei + 1
            /\ ti' = ti
            /\ pc' = "gen_resolved"
            /\ visited' = Append(visited, <<ti, ei + 1>>)
       ELSE IF ti < Len(topics)
         THEN /\ ti' = ti + 1
              /\ ei' = 1
              /\ pc' = "gen_resolved"
              /\ visited' = Append(visited, <<ti + 1, 1>>)
         ELSE /\ pc' = "save"
              /\ UNCHANGED <<ti, ei, visited>>

\* mutant: the first exception ends the loops (break instead of continue)
ExceptContinue_break(where) ==
  /\ pair_start' = Len(new_calls')
  /\ generated_resolved_script' = None
  /\ generated_unresolved_script' = None
  /\ validated_resolved_script' = None
  /\ validated_unresolved_script' = None
  /\ last' = [raised |-> where, gated_resolved |-> (pc = "gate_unresolved"),
              gated_unresolved |-> FALSE, accepted |-> Len(new_calls') - pair_start]
  /\ pc' = "save"
  /\ UNCHANGED <<ti, ei, visited>>

\* mutant: a failed pair is tried again
ExceptContinue_retry(where) ==
  /\ pair_start' = Len(new_calls')
  /\ generated_resolved_script' = None
  /\ generated_unresolved_script' = None
  /\ validated_resolved_script' = None
  /\ validated_unresolved_script' = None
  /\ last' = [raised |-> where, gated_resolved |-> (pc = "gate_unresolved"),
              gated_unresolved |-> FALSE, accepted |-> Len(new_calls') - pair_start]
  /\ pc' = "gen_resolved"
  /\ visited' = Append(visited, <<ti, ei>>)
  /\ UNCHANGED <<ti, ei>>

\* except Exception as e: logger.error(...); continue
ExceptContinue(where) ==
  NextPair([raised |-> where,
            gated_resolved |-> (pc = "gate_unresolved"),
            gated_unresolved |-> FALSE,
            accepted |-> Len(new_calls') - pair_start])

\* lines 84-90
GenerateResolved ==
  /\ pc = "gen_resolved"
  /\ UNCHANGED <<tvars, cvars, svars, evars>>
  /\ UNCHANGED <<schema, topics, random_examples, new_calls, output_json,
                 aggregated, uuid_counter, rejected>>
  /\ gen_invocations' = gen_invocations + 1
  /\ \/ /\ \E d \in GenDocs : generated_resolved_script' = d
        /\ pc' = "gen_unresolved"
        /\ UNCHANGED <<ti, ei, visited, pair_start, last, generated_unresolved_script,
                       validated_resolved_script, validated_unresolved_script>>
     \/ ExceptContinue("gen_resolved")

\* lines 93-99
GenerateUnresolved ==
  /\ pc = "gen_unresolved"
  /\ UNCHANGED <<tvars, cvars, svars, evars>>
  /\ UNCHANGED <<schema, topics, random_examples, new_calls, output_json,
                 aggregated, uuid_counter, rejected>>
  /\ gen_invocations' = gen_invocations + 1
  /\ \/ /\ \E d \in GenDocs : generated_unresolved_script' = d
        /\ pc' = "val_resolved"
        /\ UNCHANGED <<ti, ei, visited, pair_start, last, generated_resolved_script,
                       validated_resolved_script, validated_unresolved_script>>
     \/ ExceptContinue("gen_unresolved")

\* lines 104-106
ValidateResolved ==
  /\ pc = "val_resolved"
  /\ UNCHANGED <<tvars, cvars, svars, evars>>
  /\ UNCHANGED <<schema, topics, random_examples, new_calls, output_json,
                 aggregated, uuid_counter, gen_invocations, rejected>>
  /\ \/ /\ \E d \in ValDocs : validated_resolved_script' = d
        /\ pc' = "val_unresolved"
        /\ UNCHANGED <<ti, ei, visited, pair_start, last, generated_resolved_script,
                       generated_unresolved_script, validated_unresolved_script>>
     \/ ExceptContinue("val_resolved")

\* lines 109-111
ValidateUnresolved ==
  /\ pc = "val_unresolved"
  /\ UNCHANGED <<tvars, cvars, svars, evars>>
  /\ UNCHANGED <<schema, topics, random_examples, new_calls, output_json,
                 aggregated, uuid_counter, gen_invocations, rejected>>
  /\ \/ /\ \E d \in ValDocs : validated_unresolved_script' = d
        /\ pc' = "tag"
        /\ UNCHANGED <<ti, ei, visited, pair_start, last, generated_resolved_script,
                       generated_unresolved_script, validated_resolved_script>>
     \/ ExceptContinue("val_unresolved")

\* lines 114-127.  str(uuid.uuid4()) is evaluated before the item assignment
\* that raises TypeError on a value that is no dict.
AddMetadataToScripts ==
  /\ pc = "tag"
  /\ UNCHANGED <<tvars, cvars, svars, evars>>
  /\ UNCHANGED <<schema, topics, random_examples, new_calls, output_json,
                 aggregated, gen_invocations, rejected>>
  /\ IF ~validated_resolved_script.is_dict
       THEN /\ uuid_counter' = uuid_counter + 1
            /\ ExceptContinue("tag")
       ELSE IF ~validated_unresolved_script.is_dict
         THEN /\ uuid_counter' = uuid_counter + 2
              /\ ExceptContinue("tag")
         ELSE /\ uuid_counter' = uuid_counter + 2
              /\ validated_resolved_script' =
                   AddMetadata(validated_resolved_script, uuid_counter + 1, topics[ti], TRUE)
              /\ validated_unresolved_script' =
                   AddMetadata(validated_unresolved_script, uuid_counter + 2, topics[ti], FALSE)
              /\ pc' = "gate_resolved"
              /\ UNCHANGED <<ti, ei, visited, pair_start, last, generated_resolved_script,
                             generated_unresolved_script>>

\* mutant: the gate checks the script as it was before the metadata was added
GateAccepts_untagged(script) ==
  validate_json([script EXCEPT !.keys = @ \ (MetaKeys \ {"call_id"})], schema)
   \/ validate_json([script EXCEPT !.keys = @ \ MetaKeys], schema)

\* mutant: the script is appended whatever validate_json returns
GateAccepts_always(script) == TRUE

\* `if validate_json(script, schema)`, lines 130 and 136
GateAccepts(script) == validate_json(script, schema)

GateResolved ==
  /\ pc = "gate_resolved"
  /\ UNCHANGED <<tvars, cvars, svars, evars>>
  /\ IF ~schema.well_formed
       THEN /\ UNCHANGED <<new_calls, rejected>>
            /\ ExceptContinue("gate_resolved")
       ELSE /\ new_calls' = IF GateAccepts(validated_resolved_script)
                              THEN Append(new_calls, validated_resolved_script)
                              ELSE new_calls
            /\ rejected' = IF validate_json(validated_resolved_script, schema)
                             THEN rejected
                             ELSE rejected \cup {validated_resolved_script.call_id}
            /\ pc' = "gate_unresolved"
            /\ UNCHANGED <<ti, ei, visited, pair_start, last, generated_resolved_script,
                           generated_unresolved_script, validated_resolved_script,
                           validated_unresolved_script>>
  /\ UNCHANGED <<schema, topics, random_examples, output_json, aggregated,
                 uuid_counter, gen_invocations>>

\* lines 136-140, then the end of the loop body
GateUnresolved ==
  /\ pc = "gate_unresolved"
  /\ UNCHANGED <<tvars, cvars, svars, evars>>
  /\ IF ~schema.well_formed
       THEN /\ UNCHANGED <<new_calls, rejected>>
            /\ ExceptContinue("gate_unresolved")
       ELSE /\ new_calls' = IF GateAccepts(validated_unresolved_script)
                              THEN Append(new_calls, validated_unresolved_script)
                              ELSE new_calls
            /\ rejected' = IF validate_json(validated_unresolved_script, schema)
                             THEN rejected
                             ELSE rejected \cup {validated_unresolved_script.call_id}
            /\ NextPair([raised |-> "none", gated_resolved |-> TRUE,
                         gated_unresolved |-> TRUE,
                         accepted |-> Len(new_calls') - pair_start])
  /\ UNCHANGED <<schema, topics, random_examples, output_json, aggregated,
                 uuid_counter, gen_invocations>>

\* lines 146-151
SaveOutput ==
  /\ pc = "save"
  /\ UNCHANGED <<tvars, cvars, svars, evars>>
  /\ output_json' = [written |-> TRUE, calls |-> new_calls]
  /\ pc' = "aggregate"
  /\ UNCHANGED <<schema, topics, random_examples, ti, ei,
                 generated_resolved_script, generated_unresolved_script,
                 validated_resolved_script, validated_unresolved_script,
                 new_calls, aggregated, uuid_counter, gen_invocations,
                 visited, pair_start, rejected, last>>

\* line 155
Aggregate ==
  /\ pc = "aggregate"
  /\ UNCHANGED <<tvars, cvars, svars, evars>>
  /\ aggregated' = TRUE
  /\ pc' = "done"
  /\ UNCHANGED <<schema, topics, random_examples, ti, ei,
                 generated_resolved_script, generated_unresolved_script,
                 validated_resolved_script, validated_unresolved_script,
                 new_calls, output_json, uuid_counter, gen_invocations,
                 visited, pair_start, rejected, last>>

(***************************************************************************)
(* termination_msg (sequential_conversation/utils.py).  A str is the       *)
(* sequence of its characters.                                             *)
(***************************************************************************)
TERMINATE == <<"T", "E", "R", "M", "I", "N", "A", "T", "E">>

\* str.upper() on one character
UpperChar(c) ==
  CASE c = "t" -> "T" [] c = "e" -> "E" [] c = "r" -> "R" [] c = "m" -> "M"
    [] c = "i" -> "I" [] c = "n" -> "N" [] c = "a" -> "A" [] c = "p" -> "P"
    [] c = "o" -> "O" [] c = "k" -> "K"
    [] OTHER -> c

Upper(s) == [i \in 1..Len(s) |-> UpperChar(s[i])]

\* s[-n:]
LastChars(s, n) == SubSeq(s, IF Len(s) > n THEN Len(s) - n + 1 ELSE 1, Len(s))

Str(s) == [kind |-> "str", s |-> s]
PyNone == [kind |-> "none", s |-> << >>]

\* str(value)
PyStr(value) == IF value.kind = "none" THEN <<"N", "o", "n", "e">> ELSE value.s

\* x.get("content", "")
GetContent(x) == IF x.has_content THEN x.content ELSE Str(<< >>)

\* "TERMINATE" in str(...).upper(): a substring match
Contains(s, w) == \E k \in 0..(Len(s) - Len(w)) : SubSeq(s, k + 1, k + Len(w)) = w

\* mutant: the token anywhere in the content terminates
termination_msg_contains(x) ==
  x.is_dict /\ Contains(Upper(PyStr(GetContent(x))), TERMINATE)

\* mutant: the .upper() is missing
termination_msg_case_sensitive(x) ==
  x.is_dict /\ TERMINATE = LastChars(PyStr(GetContent(x)), 9)

termination_msg(x) ==
  x.is_dict /\ TERMINATE = Upper(LastChars(PyStr(GetContent(x)), 9))

\* the strings termination_msg is applied to: prefix + core + suffix
TermPrefixes == { << >>, <<"p">>, <<"T">>, <<"o", "k", " ">> }
TermCores ==
  { TERMINATE,
    <<"t", "e", "r", "m", "i", "n", "a", "t", "e">>,
    <<"T", "e", "r", "m", "i", "n", "a", "t", "e">>,
    <<"T", "E", "R", "M", "I", "N", "A", "T">>,
    <<"E", "R", "M", "I", "N", "A", "T", "E">>,
    <<"T", "E", "R", "M", "I", "N", "A", "T", "A">>,
    << >> }
TermSuffixes == { << >>, <<" ">>, <<".">>, <<" ", "p">>, <<"E">> }

TermStrings == { p \o c \o u : p \in TermPrefixes, c \in TermCores, u \in TermSuffixes }

TermInputs ==
  { [is_dict |-> TRUE, has_content |-> TRUE, content |-> Str(s)] : s \in TermStrings }
  \cup { [is_dict |-> FALSE, has_content |-> TRUE, content |-> Str(s)] : s \in TermStrings }
  \cup { [is_dict |-> d, has_content |-> TRUE, content |-> PyNone] : d \in BOOLEAN }
  \cup { [is_dict |-> d, has_content |-> FALSE, content |-> PyNone] : d \in BOOLEAN }

TermStart ==
  /\ term_pc = "call"
  /\ term_x \in TermInputs
  /\ term_result = FALSE

TermIdle ==
  /\ term_pc = "idle"
  /\ term_x = [is_dict |-> FALSE, has_content |-> FALSE, content |-> PyNone]
  /\ term_result = FALSE

CallTerminationMsg ==
  /\ term_pc = "call"
  /\ UNCHANGED <<pvars, cvars, svars, evars>>
  /\ term_result' = termination_msg(term_x)
  /\ term_pc' = "returned"
  /\ UNCHANGED term_x

(***************************************************************************)
(* The conversation engine: run_conversation (conversation_manager.py) and *)
(* the archived script (archive/tool_service_agent.py).                    *)
(***************************************************************************)
\* mutant: one round more than configured
max_round_plus_one == 10 + 1

max_round == 10
archive_max_round == 8

MaxRound(v) == IF v = "run_conversation" THEN max_round ELSE archive_max_round

\* GroupChat(agents=[...])
GroupChatAgents(v) ==
  IF v = "run_conversation" THEN <<"service_agent", "customer_agent">>
                            ELSE <<"support_assistant", "customer_agent">>

\* mutant: the service agent opens the chat
Initiator_service == "service_agent"

\* customer_agent.initiate_chat(manager, message=initial_message)
Initiator == "customer_agent"

\* what a model invocation can return as the content of a turn
ChatContents ==
  { <<"o", "k">>,
    TERMINATE,
    <<"p">> \o TERMINATE,
    <<"t", "e", "r", "m", "i", "n", "a", "t", "e">>,
    TERMINATE \o <<" ", "p">> }

Message(name, c) ==
  [is_dict |-> TRUE, has_content |-> TRUE, content |-> Str(c), name |-> name]

\* the is_termination_msg an agent has when none is passed to its constructor
DefaultIsTerminationMsg(x) == PyStr(GetContent(x)) = TERMINATE

\* GroupChatManager(groupchat=groupchat, is_termination_msg=termination_msg);
\* the archived script passes none
ManagerIsTerminationMsg(v, x) ==
  IF v = "run_conversation" THEN termination_msg(x) ELSE DefaultIsTerminationMsg(x)

\* ConversableAgent(..., is_termination_msg=termination_msg); the archived
\* support_assistant is built without one
AgentIsTerminationMsg(v, agent, x) ==
  IF v = "archive" /\ agent = "support_assistant"
    THEN DefaultIsTerminationMsg(x)
    ELSE termination_msg(x)

IndexOf(agent, ags) == CHOOSE i \in 1..Len(ags) : ags[i] = agent

\* speaker_selection_method="round_robin": the agent after the last speaker
speaker_selection_method(last_speaker, ags) ==
  ags[(IndexOf(last_speaker, ags) % Len(ags)) + 1]

\* the manager appended `message` in round i: stop on the termination
\* message or in the last round, else go on
AfterAppend(v, message, i) ==
  IF ManagerIsTerminationMsg(v, message) THEN "TERMINATED"
  ELSE IF i = MaxRound(v) - 1 THEN "ROUND_LIMIT_REACHED"
  ELSE "IN_PROGRESS"

NoResult == [returned |-> FALSE, chat_history |-> << >>]

ChatStart ==
  /\ variant \in {"run_conversation", "archive"}
  /\ chat_state = "AWAITING_INITIAL"
  /\ groupchat_messages = << >>
  /\ round = 0
  /\ chat_result = NoResult

ChatIdle ==
  /\ variant = "none"
  /\ chat_state = "idle"
  /\ groupchat_messages = << >>
  /\ round = 0
  /\ chat_result = NoResult

\* generate_initial_message(...), then initiate_chat hands the message to the
\* manager, which appends it in round 0
InitiateChat ==
  /\ chat_state = "AWAITING_INITIAL"
  /\ UNCHANGED <<pvars, tvars, svars, evars>>
  /\ \E c \in ChatContents :
       LET message == Message(Initiator, c) IN
         /\ groupchat_messages' = <<message>>
         /\ chat_state' = AfterAppend(variant, message, 0)
  /\ UNCHANGED <<variant, round, chat_result>>

\* one turn: the next speaker is selected and asked for a reply; an agent
\* that finds the last message to be a termination message replies nothing,
\* which ends the chat; else the reply is appended in the next round
Turn ==
  /\ chat_state = "IN_PROGRESS"
  /\ UNCHANGED <<pvars, tvars, svars, evars>>
  /\ LET last_message == groupchat_messages[Len(groupchat_messages)]
         speaker == speaker_selection_method(last_message.name, GroupChatAgents(variant))
     IN IF AgentIsTerminationMsg(variant, speaker, last_message)
          THEN /\ chat_state' = "TERMINATED"
               /\ UNCHANGED <<groupchat_messages, round>>
          ELSE \E c \in ChatContents :
                 LET message == Message(speaker, c) IN
                   /\ groupchat_messages' = Append(groupchat_messages, message)
                   /\ round' = round + 1
                   /\ chat_state' = AfterAppend(variant, message, round + 1)
  /\ UNCHANGED <<variant, chat_result>>

\* lines 72-77: chat_result.chat_history (summary and cost come with it)
ReturnChatResult ==
  /\ chat_state \in {"TERMINATED", "ROUND_LIMIT_REACHED"}
  /\ UNCHANGED <<pvars, tvars, svars, evars>>
  /\ ~chat_result.returned
  /\ chat_result' = [returned |-> TRUE, chat_history |-> groupchat_messages]
  /\ UNCHANGED <<variant, chat_state, groupchat_messages, round>>

(***************************************************************************)
(* The scenario loaders (scenario_loader.py): the task sample.             *)
(***************************************************************************)
TopicKeys == {"Konto", "Karte"}
TaskLists == { << >>, <<"a">>, <<"b">>, <<"a", "b">>, <<"c">> }

\* the topics_actionable_items a tasks file can hold
TaskConfigs == UNION { [D -> TaskLists] : D \in SUBSET TopicKeys }

Loaders == {"default", "aggressive", "aggressive_en"}

\* load_yaml("config/tasks_de.yaml") in the German loaders, tasks_en in the English one
TasksOf(l) == IF l = "aggressive_en" THEN tasks_en ELSE tasks_de

\* config/default and config/aggressive
Dirs == {"default", "aggressive"}

PersonalKeys == {"company_name", "person_name", "bot_name"}
ProfileKeys == {"characteristics", "conversational_styles", "emotional_statuses",
                "experience", "goals"}

\* a YAML list of n plain strings
Items(dir, key, n) == [i \in 1..n |-> <<dir, key, i>>]

\* a YAML list of n {description, detail} entries
Entries(dir, role, key, n) ==
  [i \in 1..n |-> [description |-> <<dir, role, key, i>>,
                   detail |-> <<dir, role, key, i, "detail">>]]

MediaEntry(type, i) == [type |-> type, description |-> <<"media", i>>]

\* the files under config/: np entries in every pool of personal_data, n in
\* every pool of the two profiles, customer goals apart
ConfigFiles(np, n, ngoals, media) ==
  [personal_data |-> [d \in Dirs |-> [k \in PersonalKeys |-> Items(d, k, np)]],
   media_type |-> media,
   service_agent_profile |->
     [d \in Dirs |-> [k \in ProfileKeys |-> Entries(d, "service", k, n)]],
   customer_agent_profile |->
     [d \in Dirs |-> [k \in ProfileKeys |->
        Entries(d, "customer", k, IF k = "goals" THEN ngoals ELSE n)]]]

\* one entry in every pool, one medium: every draw has one outcome
PlainConfig == ConfigFiles(1, 1, 1, <<MediaEntry("phone call", 1)>>)

ConfigWorlds ==
  { ConfigFiles(2, 1, 1, <<MediaEntry("email", 1), MediaEntry("phone call", 2)>>),
    ConfigFiles(1, 2, 2, <<MediaEntry("phone call", 1)>>),
    ConfigFiles(1, 1, 2, <<MediaEntry("email", 1), MediaEntry("chat", 2)>>),
    ConfigFiles(1, 1, 1, <<MediaEntry("phone call", 1), MediaEntry("email", 2),
                           MediaEntry("phone call", 3)>>),
    ConfigFiles(1, 1, 0, <<MediaEntry("phone call", 1)>>),
    ConfigFiles(1, 1, 1, << >>) }

NoEntry == [description |-> << >>, detail |-> << >>]

NoScenario ==
  [selected_bank |-> << >>,
   selected_customer_name |-> << >>,
   selected_service_agent_name |-> << >>,
   selected_media_type |-> "none",
   selected_media_description |-> << >>,
   service_agent_characteristic |-> << >>,
   service_agent_style |-> NoEntry,
   service_agent_emotion |-> NoEntry,
   service_agent_experience |-> << >>,
   service_agent_goal |-> << >>,
   customer_agent_characteristic |-> << >>,
   customer_agent_style |-> NoEntry,
   customer_agent_emotion |-> NoEntry,
   customer_agent_experience |-> << >>,
   customer_agent_goal |-> << >>]

\* the task files vary, the persona files are plain
ScenarioStart ==
  /\ scen_pc = "call"
  /\ loader = "none"
  /\ tasks_de \in TaskConfigs
  /\ tasks_en \in TaskConfigs
  /\ selected_topic = "none"
  /\ selected_task = "none"
  /\ config = PlainConfig
  /\ scenario = NoScenario

\* the persona files vary, each task file holds one topic
PersonaStart ==
  /\ scen_pc = "call"
  /\ loader = "none"
  /\ tasks_de = [t \in {"Konto"} |-> <<"a", "b">>]
  /\ tasks_en = [t \in {"Karte"} |-> <<"c">>]
  /\ selected_topic = "none"
  /\ selected_task = "none"
  /\ config \in ConfigWorlds
  /\ scenario = NoScenario

ScenarioIdle ==
  /\ scen_pc = "idle"
  /\ loader = "none"
  /\ tasks_de = << >>
  /\ tasks_en = << >>
  /\ selected_topic = "none"
  /\ selected_task = "none"
  /\ config = PlainConfig
  /\ scenario = NoScenario

\* mutant: a flat sample over the tasks of all topics
ChooseTask_flat(tasks, topic) ==
  UNION { { tasks[t][i] : i \in 1..Len(tasks[t]) } : t \in DOMAIN tasks }

\* random.choice(tasks[selected_topic])
ChooseTask(tasks, topic) == { tasks[topic][i] : i \in 1..Len(tasks[topic]) }

\* random.choice(seq): the elements of seq; IndexError when seq is empty
Choice(seq) == { seq[i] : i \in 1..Len(seq) }

\* config/default for the default loader, config/aggressive for the other two
DirOf(l) == IF l = "default" THEN "default" ELSE "aggressive"

\* personal_data["person_name"] in the default loader, ["bot_name"] in the others
ServiceAgentNames(l) ==
  LET personal_data == config.personal_data[DirOf(l)] IN
    IF l = "default" THEN Choice(personal_data["person_name"])
                     ELSE Choice(personal_data["bot_name"])

\* random.choice(media_types) in the German loaders; in the English one
\* next(mt for mt in media_types if mt["type"] == "phone call"), which raises
\* StopIteration when no entry has that type
SelectedMedia(l) ==
  LET media_types == config.media_type IN
    IF l = "aggressive_en"
      THEN LET phone == { i \in 1..Len(media_types) : media_types[i].type = "phone call" } IN
             IF phone = {} THEN {}
             ELSE { media_types[CHOOSE i \in phone : \A j \in phone : i <= j] }
      ELSE Choice(media_types)

Descriptions(entries) == { e.description : e \in Choice(entries) }

\* the dicts a loader can return (selected_task apart): one draw per key
Scenarios(l) ==
  LET personal_data == config.personal_data[DirOf(l)]
      service_agent_components == config.service_agent_profile[DirOf(l)]
      customer_agent_components == config.customer_agent_profile[DirOf(l)]
      media == SelectedMedia(l)
  IN [selected_bank : Choice(personal_data["company_name"]),
      selected_customer_name : Choice(personal_data["person_name"]),
      selected_service_agent_name : ServiceAgentNames(l),
      selected_media : media,
      service_agent_characteristic : Descriptions(service_agent_components["characteristics"]),
      service_agent_style : Choice(service_agent_components["conversational_styles"]),
      service_agent_emotion : Choice(service_agent_components["emotional_statuses"]),
      service_agent_experience : Descriptions(service_agent_components["experience"]),
      service_agent_goal : Descriptions(service_agent_components["goals"]),
      customer_agent_characteristic : Descriptions(customer_agent_components["characteristics"]),
      customer_agent_style : Choice(customer_agent_components["conversational_styles"]),
      customer_agent_emotion : Choice(customer_agent_components["emotional_statuses"]),
      customer_agent_experience : Descriptions(customer_agent_components["experience"]),
      customer_agent_goal : Descriptions(customer_agent_components["goals"])]

\* the returned dict: selected_media is split into its type and description
ReturnedDict(draws) ==
  [k \in DOMAIN NoScenario |->
     IF k = "selected_media_type" THEN draws.selected_media.type
     ELSE IF k = "selected_media_description" THEN draws.selected_media.description
     ELSE draws[k]]

\* one call of a loader.  selected_topic = random.choice(list(tasks.keys()));
\* selected_task = random.choice(tasks[selected_topic]); then one draw per
\* persona key.  A draw from an empty list raises and nothing is returned.
SampleTask(l) ==
  /\ scen_pc = "call"
  /\ UNCHANGED <<pvars, tvars, cvars, evars>>
  /\ loader' = l
  /\ LET tasks == TasksOf(l) IN
       IF DOMAIN tasks = {} \/ Scenarios(l) = {}
         THEN /\ scen_pc' = "raised"
              /\ UNCHANGED <<selected_topic, selected_task, scenario>>
         ELSE \E topic \in DOMAIN tasks :
                /\ selected_topic' = topic
                /\ IF ChooseTask(tasks, topic) = {}
                     THEN /\ scen_pc' = "raised"
                          /\ UNCHANGED <<selected_task, scenario>>
                     ELSE /\ \E task \in ChooseTask(tasks, topic) : selected_task' = task
                          /\ \E draws \in Scenarios(l) : scenario' = ReturnedDict(draws)
                          /\ scen_pc' = "returned"
  /\ UNCHANGED <<tasks_de, tasks_en, config>>

load_default_scenario_data == SampleTask("default")

load_aggressive_scenario_data == SampleTask("aggressive")

load_aggressive_en_scenario_data == SampleTask("aggressive_en")

(***************************************************************************)
(* aggregate_json_files (utils.py).                                        *)
(***************************************************************************)
\* a call as it stands in a file: its call_id and the rest of the document
AggCalls == { [call_id |-> 1, body |-> "x"], [call_id |-> 1, body |-> "y"],
              [call_id |-> 2, body |-> "x"] }

RECURSIVE SeqsUpTo(_, _)
SeqsUpTo(S, n) ==
  IF n = 0 THEN { << >> }
  ELSE LET shorter == SeqsUpTo(S, n - 1) IN
         shorter \cup { Append(q, c) : q \in { r \in shorter : Len(r) = n - 1 }, c \in S }

\* json.load(file): a document with a "calls" array, or one without the key
FileContents ==
  { [has_calls |-> TRUE, calls |-> q] : q \in SeqsUpTo(AggCalls, MaxCallsPerFile) }
    \cup { [has_calls |-> FALSE, calls |-> << >>] }

JsonNames == { <<"a", ".", "j", "s", "o", "n">>, <<"b", ".", "j", "s", "o", "n">> }
OtherNames == { <<"c", ".", "j", "s", "o", "n", ".", "b", "a", "k">> }

\* the folders: some files named *.json, maybe a backup file next to them
Folders ==
  UNION { { [n \in J \cup O |->
               IF n \in O THEN [has_calls |-> TRUE, calls |-> <<[call_id |-> 2, body |-> "x"]>>]
               ELSE f[n]] : f \in [J -> FileContents] }
          : J \in SUBSET JsonNames, O \in SUBSET OtherNames }

\* file_name.endswith(".json")
EndsWithJson(file_name) == LastChars(file_name, 5) = <<".", "j", "s", "o", "n">>

\* os.listdir returns the names in arbitrary order
Listings(folder) ==
  { q \in SeqsUpTo(DOMAIN folder, Cardinality(DOMAIN folder)) :
      /\ Len(q) = Cardinality(DOMAIN folder)
      /\ \A i, j \in 1..Len(q) : i # j => q[i] # q[j] }

AggStart ==
  /\ agg_pc = "call"
  /\ input_folder \in Folders
  /\ listing = << >>
  /\ file_idx = 1
  /\ aggregated_data = << >>
  /\ output_file = [written |-> FALSE, calls |-> << >>]
  /\ agg_runs = 0

AggIdle ==
  /\ agg_pc = "idle"
  /\ input_folder = << >>
  /\ listing = << >>
  /\ file_idx = 1
  /\ aggregated_data = << >>
  /\ output_file = [written |-> FALSE, calls |-> << >>]
  /\ agg_runs = 0

\* lines 244-247: a run starts with an empty list and the folder's listing
ListDir ==
  /\ agg_pc \in {"call", "returned"}
  /\ agg_runs < MaxAggRuns
  /\ UNCHANGED <<pvars, tvars, cvars, svars, fvars, lvars, uvars, mvars, nvars>>
  /\ listing' \in Listings(input_folder)
  /\ aggregated_data' = << >>
  /\ file_idx' = 1
  /\ agg_runs' = agg_runs + 1
  /\ agg_pc' = "loop"
  /\ UNCHANGED <<input_folder, output_file>>

\* mutant: a call whose call_id is already aggregated is merged away
AppendCalls_merge(data, calls) ==
  data \o SelectSeq(calls, LAMBDA c : \A i \in 1..Len(data) : data[i].call_id # c.call_id)

\* for call in data["calls"]: aggregated_data.append(call)
AppendCalls(data, calls) == data \o calls

\* lines 247-255: one file of the listing; data["calls"] raises KeyError
\* when the document has no such key
AggregateFile ==
  /\ agg_pc = "loop"
  /\ file_idx <= Len(listing)
  /\ UNCHANGED <<pvars, tvars, cvars, svars, fvars, lvars, uvars, mvars, nvars>>
  /\ LET file_name == listing[file_idx]
         data == input_folder[file_name]
     IN IF ~EndsWithJson(file_name)
          THEN /\ file_idx' = file_idx + 1
               /\ UNCHANGED <<agg_pc, aggregated_data>>
          ELSE IF ~data.has_calls
            THEN /\ agg_pc' = "raised"
                 /\ UNCHANGED <<file_idx, aggregated_data>>
            ELSE /\ aggregated_data' = AppendCalls(aggregated_data, data.calls)
                 /\ file_idx' = file_idx + 1
                 /\ UNCHANGED agg_pc
  /\ UNCHANGED <<input_folder, listing, output_file, agg_runs>>

\* mutant: the output file is opened for appending
WriteMode_append(old, data) == old \o data

\* open(output_file, "w"): the file holds the new data only
WriteMode(old, data) == data

\* lines 257-262
WriteAggregated ==
  /\ agg_pc = "loop"
  /\ file_idx > Len(listing)
  /\ UNCHANGED <<pvars, tvars, cvars, svars, fvars, lvars, uvars, mvars, nvars>>
  /\ output_file' = [written |-> TRUE, calls |-> WriteMode(output_file.calls, aggregated_data)]
  /\ agg_pc' = "returned"
  /\ UNCHANGED <<input_folder, listing, file_idx, aggregated_data, agg_runs>>

(***************************************************************************)
(* evaluate_conversation (filter_conversations.py): the score parser.      *)
(* Texts are sequences of characters over digits, ".", "-", letters,       *)
(* blanks and newlines; a score is held in hundredths.                     *)
(***************************************************************************)
Digits == {"1", "7"}
NL == "\n"
Whitespace == {" ", NL}

\* a float is held as the integer number of hundredths
ScoreUnit == 100

DigitValue(c) == IF c = "1" THEN 1 ELSE 7

RECURSIVE LStrip(_)
LStrip(t) == IF t # << >> /\ Head(t) \in Whitespace THEN LStrip(Tail(t)) ELSE t

RECURSIVE RStrip(_)
RStrip(t) ==
  IF t # << >> /\ t[Len(t)] \in Whitespace THEN RStrip(SubSeq(t, 1, Len(t) - 1)) ELSE t

\* str.strip()
Strip(t) == RStrip(LStrip(t))

\* str.split("\n"): the pieces between the newlines, empty pieces included
RECURSIVE Split(_)
Split(t) ==
  IF \A i \in 1..Len(t) : t[i] # NL THEN <<t>>
  ELSE LET i == CHOOSE k \in 1..Len(t) : t[k] = NL /\ \A j \in 1..(k - 1) : t[j] # NL
       IN <<SubSeq(t, 1, i - 1)>> \o Split(SubSeq(t, i + 1, Len(t)))

\* str.replace(".", "", 1)
ReplaceFirstDot(t) ==
  IF \A i \in 1..Len(t) : t[i] # "." THEN t
  ELSE LET i == CHOOSE k \in 1..Len(t) : t[k] = "." /\ \A j \in 1..(k - 1) : t[j] # "."
       IN SubSeq(t, 1, i - 1) \o SubSeq(t, i + 1, Len(t))

\* str.isdigit()
IsDigit(t) == t # << >> /\ \A i \in 1..Len(t) : t[i] \in Digits

RECURSIVE IntOf(_)
IntOf(t) == IF t = << >> THEN 0 ELSE 10 * IntOf(SubSeq(t, 1, Len(t) - 1)) + DigitValue(t[Len(t)])

RECURSIVE Pow10(_)
Pow10(n) == IF n = 0 THEN 1 ELSE 10 * Pow10(n - 1)

\* float(t) raises ValueError: t, blanks stripped and one leading sign
\* dropped, is not digits with at most one "." among them
FloatRaises(t) ==
  LET u == Strip(t)
      v == IF u # << >> /\ Head(u) = "-" THEN Tail(u) ELSE u
  IN ~IsDigit(ReplaceFirstDot(v))

\* float(t) in hundredths; at most two digits follow the "."
Float(t) ==
  LET u == Strip(t)
      neg == u # << >> /\ Head(u) = "-"
      v == IF neg THEN Tail(u) ELSE u
      dots == { i \in 1..Len(v) : v[i] = "." }
      dot == IF dots = {} THEN Len(v) + 1 ELSE CHOOSE i \in dots : TRUE
      whole == SubSeq(v, 1, dot - 1)
      frac == SubSeq(v, dot + 1, Len(v))
      magnitude == IntOf(whole) * ScoreUnit + IntOf(frac) * Pow10(2 - Len(frac))
  IN IF neg THEN 0 - magnitude ELSE magnitude

\* lines 62-70: the first line float() accepts, 0.0 when there is none
RECURSIVE ScanLines(_)
ScanLines(response_lines) ==
  IF response_lines = << >> THEN 0
  ELSE IF FloatRaises(Strip(Head(response_lines))) THEN ScanLines(Tail(response_lines))
  ELSE Float(Strip(Head(response_lines)))

\* lines 54-74 of evaluate_conversation
overall_score(response_text) ==
  LET response_lines == Split(Strip(response_text)) IN
    IF Len(response_lines) = 1 /\ IsDigit(ReplaceFirstDot(response_lines[1]))
      THEN Float(response_lines[1])
      ELSE ScanLines(response_lines)

(***************************************************************************)
(* filter_conversations.                                                   *)
(***************************************************************************)
\* what the judge does for a conversation: the create call raises, or the
\* response text
JudgeRaises == [raises |-> TRUE, text |-> << >>]
JudgeSays(text) == [raises |-> FALSE, text |-> text]

\* a conversation with conv["input_settings"]["selected_media_type"]
Kind(selected_media_type, judge) ==
  [input_settings |-> TRUE, selected_media_type |-> selected_media_type, judge |-> judge]

\* a conversation without the key input_settings
NoSettings == [input_settings |-> FALSE, selected_media_type |-> "None",
               judge |-> JudgeSays(<<"7">>)]

\* the conversations a file can hold, call_id apart
ConvKinds ==
  { Kind("email", JudgeSays(<<"7">>)),
    Kind("phone call", JudgeSays(<<"7", "1">>)),
    Kind("email", JudgeSays(<<" ", "7", ".", "1", NL>>)),
    Kind("email", JudgeSays(<<"x">>)),
    Kind("email", JudgeSays(<<"-", "7">>)),
    Kind("email", JudgeSays(<<"x", NL, " ", "7", NL, "1">>)),
    Kind("email", JudgeRaises),
    NoSettings }

\* the conversation of kind k at place j of file f
Conv(k, f, j) ==
  [call_id |-> <<f, j>>, input_settings |-> k.input_settings,
   selected_media_type |-> k.selected_media_type,
   judge |-> k.judge, llm_rating |-> 0, rated |-> FALSE]

\* json.load(f): a list of conversations, or the file cannot be read
Unreadable == [readable |-> FALSE, conversations |-> << >>]
ConvFile(kinds, f) ==
  [readable |-> TRUE, conversations |-> [j \in 1..Len(kinds) |-> Conv(kinds[j], f, j)]]

\* glob order: a file of up to MaxConvsPerFile conversations before or after
\* a second file that is unreadable, empty or holds one conversation
FileSets ==
  LET big == { ConvFile(q, 1) : q \in SeqsUpTo(ConvKinds, MaxConvsPerFile) } \cup {Unreadable}
      small == { Unreadable, ConvFile(<< >>, 2),
                 ConvFile(<<Kind("email", JudgeSays(<<"7">>))>>, 2) }
  IN { <<b, m>> : b \in big, m \in small } \cup { <<m, b>> : b \in big, m \in small }

FilterStart ==
  /\ filt_pc = "read"
  /\ json_files \in FileSets
  /\ media_type \in {"None", "email"}
  /\ top_n \in 0..MaxTopN
  /\ file_pos = 1
  /\ all_conversations = << >>
  /\ conv_pos = 1
  /\ evaluated_conversations = << >>
  /\ filtered_file = [written |-> FALSE, conversations |-> << >>]

FilterIdle ==
  /\ filt_pc = "idle"
  /\ json_files = << >>
  /\ media_type = "None"
  /\ top_n = 0
  /\ file_pos = 1
  /\ all_conversations = << >>
  /\ conv_pos = 1
  /\ evaluated_conversations = << >>
  /\ filtered_file = [written |-> FALSE, conversations |-> << >>]

\* mutant: the conversations ahead of the one without input_settings are
\* kept
Loaded_partial(file, wanted) ==
  IF ~file.readable THEN << >>
  ELSE IF wanted = "None" THEN file.conversations
  ELSE LET bad == { i \in 1..Len(file.conversations) : ~file.conversations[i].input_settings }
           upto == IF bad = {} THEN Len(file.conversations)
                   ELSE (CHOOSE i \in bad : \A j \in bad : i <= j) - 1
       IN SelectSeq(SubSeq(file.conversations, 1, upto),
                    LAMBDA conv : conv.selected_media_type = wanted)

\* lines 96-108: what the try block of one file adds to all_conversations;
\* json.load or the comprehension over conv["input_settings"] raising leaves
\* the list as it was
Loaded(file, wanted) ==
  IF ~file.readable THEN << >>
  ELSE IF wanted = "None" THEN file.conversations
  ELSE IF \E i \in 1..Len(file.conversations) : ~file.conversations[i].input_settings
    THEN << >>
  ELSE SelectSeq(file.conversations, LAMBDA conv : conv.selected_media_type = wanted)

\* lines 95-112: one file; a file that cannot be read or filtered is skipped
ReadFile ==
  /\ filt_pc = "read"
  /\ UNCHANGED <<pvars, tvars, cvars, svars, avars, lvars, uvars, mvars, nvars>>
  /\ IF file_pos > Len(json_files)
       THEN /\ filt_pc' = "evaluate"
            /\ UNCHANGED <<file_pos, all_conversations>>
       ELSE LET file == json_files[file_pos]
            IN /\ all_conversations' = all_conversations \o Loaded(file, media_type)
               /\ file_pos' = file_pos + 1
               /\ UNCHANGED filt_pc
  /\ UNCHANGED <<json_files, media_type, top_n, conv_pos, evaluated_conversations,
                 filtered_file>>

\* lines 116-124: one conversation; an exception skips it
EvaluateConversation ==
  /\ filt_pc = "evaluate"
  /\ UNCHANGED <<pvars, tvars, cvars, svars, avars, lvars, uvars, mvars, nvars>>
  /\ IF conv_pos > Len(all_conversations)
       THEN /\ filt_pc' = "sort"
            /\ UNCHANGED <<conv_pos, evaluated_conversations>>
       ELSE LET conv == all_conversations[conv_pos] IN
              /\ evaluated_conversations' =
                   IF conv.judge.raises THEN evaluated_conversations
                   ELSE LET score == overall_score(conv.judge.text) IN
                          Append(evaluated_conversations,
                                 [score |-> score,
                                  conv |-> [conv EXCEPT !.llm_rating = score, !.rated = TRUE]])
              /\ conv_pos' = conv_pos + 1
              /\ UNCHANGED filt_pc
  /\ UNCHANGED <<json_files, media_type, top_n, file_pos, all_conversations, filtered_file>>

\* list.sort(reverse=True, key=score): by falling score, and stable, so
\* pairs of equal score keep their order
RECURSIVE SortByScore(_)
SortByScore(pairs) ==
  IF pairs = << >> THEN << >>
  ELSE LET sorted == SortByScore(SubSeq(pairs, 1, Len(pairs) - 1))
           x == pairs[Len(pairs)]
           ahead == { i \in 1..Len(sorted) : sorted[i].score >= x.score }
           k == Cardinality(ahead)
       IN SubSeq(sorted, 1, k) \o <<x>> \o SubSeq(sorted, k + 1, Len(sorted))

\* mutant: the slice keeps one pair more
TopSlice_inclusive(pairs, n) == SubSeq(pairs, 1, IF n + 1 < Len(pairs) THEN n + 1 ELSE Len(pairs))

\* evaluated_conversations[:top_n] for top_n >= 0
TopSlice(pairs, n) == SubSeq(pairs, 1, IF n < Len(pairs) THEN n ELSE Len(pairs))

\* lines 127-134
SortAndSave ==
  /\ filt_pc = "sort"
  /\ UNCHANGED <<pvars, tvars, cvars, svars, avars, lvars, uvars, mvars, nvars>>
  /\ evaluated_conversations' = SortByScore(evaluated_conversations)
  /\ LET top == TopSlice(evaluated_conversations', top_n) IN
       filtered_file' = [written |-> TRUE,
                        conversations |-> [i \in 1..Len(top) |-> top[i].conv]]
  /\ filt_pc' = "returned"
  /\ UNCHANGED <<json_files, media_type, top_n, file_pos, all_conversations, conv_pos>>

(***************************************************************************)
(* get_llm (seeded_chain/models.py).  Names are sequences of characters.   *)
(***************************************************************************)
\* mutant: the keys are tried in alphabetical order
ModelMapKeys_sorted ==
  <<<<"c", "l", "a", "u", "d", "e">>,
    <<"f", "i", "r", "e", "w", "o", "r", "k", "s">>,
    <<"g", "e", "m", "i", "n", "i">>,
    <<"g", "e", "m", "m", "a">>,
    <<"g", "p", "t">>,
    <<"h", "a", "i", "k", "u">>,
    <<"l", "l", "a", "m", "a">>,
    <<"n", "v", "i", "d", "i", "a">>,
    <<"s", "o", "n", "n", "e", "t">>>>

\* the keys of model_map in the order the dict literal declares them
ModelMapKeys ==
  <<<<"g", "p", "t">>,
    <<"g", "e", "m", "i", "n", "i">>,
    <<"c", "l", "a", "u", "d", "e">>,
    <<"s", "o", "n", "n", "e", "t">>,
    <<"h", "a", "i", "k", "u">>,
    <<"n", "v", "i", "d", "i", "a">>,
    <<"f", "i", "r", "e", "w", "o", "r", "k", "s">>,
    <<"l", "l", "a", "m", "a">>,
    <<"g", "e", "m", "m", "a">>>>

\* model_map[key]["class"]
ModelClass(key) ==
  CASE key = <<"g", "p", "t">> -> "ChatOpenAI"
    [] key = <<"g", "e", "m", "i", "n", "i">> -> "ChatVertexAI"
    [] key = <<"c", "l", "a", "u", "d", "e">> -> "ChatAnthropic"
    [] key = <<"s", "o", "n", "n", "e", "t">> -> "ChatAnthropic"
    [] key = <<"h", "a", "i", "k", "u">> -> "ChatAnthropic"
    [] key = <<"n", "v", "i", "d", "i", "a">> -> "ChatNVIDIA"
    [] key = <<"f", "i", "r", "e", "w", "o", "r", "k", "s">> -> "ChatFireworks"
    [] key = <<"l", "l", "a", "m", "a">> -> "ChatGroq"
    [] key = <<"g", "e", "m", "m", "a">> -> "ChatGroq"

\* str.lower() on the letters that occur in the names
LowerChar(c) ==
  CASE c = "A" -> "a"
    [] c = "C" -> "c"
    [] c = "D" -> "d"
    [] c = "G" -> "g"
    [] c = "I" -> "i"
    [] c = "L" -> "l"
    [] c = "N" -> "n"
    [] c = "P" -> "p"
    [] c = "T" -> "t"
    [] c = "V" -> "v"
    [] OTHER -> c

Lower(name) == [i \in 1..Len(name) |-> LowerChar(name[i])]

\* key in model_name
IsSubstring(key, name) ==
  \E k \in 0..(Len(name) - Len(key)) : SubSeq(name, k + 1, k + Len(key)) = key

NamePieces ==
  { <<"g", "p", "t">>,
    <<"g", "e", "m", "i", "n", "i">>,
    <<"c", "l", "a", "u", "d", "e">>,
    <<"s", "o", "n", "n", "e", "t">>,
    <<"h", "a", "i", "k", "u">>,
    <<"n", "v", "i", "d", "i", "a">>,
    <<"f", "i", "r", "e", "w", "o", "r", "k", "s">>,
    <<"l", "l", "a", "m", "a">>,
    <<"g", "e", "m", "m", "a">>,
    <<"G", "P", "T">>,
    <<"L", "l", "a", "m", "a">>,
    <<"N", "V", "I", "D", "I", "A">>,
    <<"C", "l", "a", "u", "d", "e">>,
    <<"g", "p">>,
    <<"t", "-">>,
    <<"-", "4", "o">>,
    <<"/">>,
    <<"m", "i", "s", "t", "r", "a", "l">> }

RECURSIVE ConcatAll(_)
ConcatAll(parts) == IF parts = << >> THEN << >> ELSE Head(parts) \o ConcatAll(Tail(parts))

\* the values config.MODEL_NAME can take
ModelNames == { ConcatAll(parts) : parts \in SeqsUpTo(NamePieces, MaxNameParts) }

NoLlm == [class |-> "none", model |-> << >>]

LlmStart ==
  /\ llm_pc = "call"
  /\ config_MODEL_NAME \in ModelNames
  /\ llm = NoLlm

LlmIdle ==
  /\ llm_pc = "idle"
  /\ config_MODEL_NAME = << >>
  /\ llm = NoLlm

\* lines 84-92: the first key of keys found in model_name, "none" (the
\* ValueError) when the loop ends without one
RECURSIVE FirstKey(_, _)
FirstKey(keys, model_name) ==
  IF keys = << >> THEN << >>
  ELSE IF IsSubstring(Head(keys), model_name) THEN Head(keys)
  ELSE FirstKey(Tail(keys), model_name)

get_llm ==
  /\ llm_pc = "call"
  /\ UNCHANGED <<pvars, tvars, cvars, svars, avars, fvars, uvars, mvars, nvars>>
  /\ LET model_name == Lower(config_MODEL_NAME)
         key == FirstKey(ModelMapKeys, model_name)
     IN IF key = << >>
          THEN /\ llm_pc' = "raised"
               /\ UNCHANGED llm
          ELSE /\ llm' = [class |-> ModelClass(key), model |-> model_name]
               /\ llm_pc' = "returned"
  /\ UNCHANGED config_MODEL_NAME

(***************************************************************************)
(* Start of a pipeline run: the import of generation_chains.py and lines   *)
(* 40-65 of main.  Topics and examples are numbered.                       *)
(***************************************************************************)
\* a file: not there, not parseable as JSON, or a parsed document
Missing == [state |-> "missing"]
Unparseable == [state |-> "unparseable"]
TopicsDoc(ts) == [state |-> "ok", topics |-> ts]
ExamplesDoc(cs) == [state |-> "ok", calls |-> cs]
SchemaDoc(sch) == [state |-> "ok", schema |-> sch]

\* lines 55-61: the five hard-coded topics
FixedTopicList == <<101, 102, 103, 104, 105>>

LenientSchema == [well_formed |-> TRUE, required |-> ContentKeys,
                  properties |-> ContentKeys, additionalProperties |-> TRUE]

IllFormedSchema == [well_formed |-> FALSE, required |-> {},
                    properties |-> {}, additionalProperties |-> TRUE]

KnownModel == <<"g", "p", "t">> \o <<"-", "4", "o">>
UnknownModel == <<"m", "i", "s", "t", "r", "a", "l">>

\* a run in which every file is there and well formed
SoundRun(fixed) ==
  [topics_file |-> TopicsDoc(<<1, 2>>),
   examples_file |-> ExamplesDoc(<<1>>),
   schema_file |-> SchemaDoc(LenientSchema),
   FIXED_TOPICS |-> fixed,
   NUM_TOPIC_SAMPLES |-> 1,
   NUM_EXAMPLE_SAMPLES |-> 1,
   MODEL_NAME |-> KnownModel]

\* what can be wrong or unusual about one input of a run
Defects ==
  { <<"topics_file", Missing>>, <<"topics_file", Unparseable>>,
    <<"topics_file", TopicsDoc(<< >>)>>,
    <<"examples_file", Missing>>, <<"examples_file", Unparseable>>,
    <<"examples_file", ExamplesDoc(<< >>)>>,
    <<"schema_file", Missing>>, <<"schema_file", Unparseable>>,
    <<"MODEL_NAME", UnknownModel>> }

Oddities ==
  { <<"schema_file", SchemaDoc(IllFormedSchema)>>,
    <<"NUM_TOPIC_SAMPLES", 2>>, <<"NUM_TOPIC_SAMPLES", 3>>,
    <<"NUM_EXAMPLE_SAMPLES", 0>>, <<"NUM_EXAMPLE_SAMPLES", 3>> }

With(run, d) == [k \in DOMAIN run |-> IF k = d[1] THEN d[2] ELSE run[k]]

\* the runs started: a sound run with sampled topics, and runs with one
\* defect or oddity, with sampled and (for the defects) with fixed topics
StartupRuns ==
  {SoundRun(FALSE)}
    \cup { With(SoundRun(FALSE), d) : d \in Defects \cup Oddities }
    \cup { With(SoundRun(TRUE), d) : d \in Defects }

\* mutant: a topics file that cannot be loaded counts as an empty list
load_topics_lenient(file) ==
  [raised |-> FALSE, topics |-> IF file.state = "ok" THEN file.topics ELSE << >>]

\* load_topics (utils.py 135-159): FileNotFoundError, ValueError, or
\* data.get("topics", [])
load_topics(file) ==
  IF file.state = "ok" THEN [raised |-> FALSE, topics |-> file.topics]
  ELSE [raised |-> TRUE, topics |-> << >>]

\* mutant: the sample is drawn with replacement
Sample_with_replacement(pool, n) ==
  { [i \in 1..n |-> pool[q[i]]] : q \in [1..n -> 1..Len(pool)] }

\* the arrangements of n distinct entries of pool: random.sample(pool, n)
\* for 0 <= n <= len(pool)
Sample(pool, n) ==
  { [i \in 1..n |-> pool[q[i]]] :
      q \in { f \in [1..n -> 1..Len(pool)] : \A i, j \in 1..n : i # j => f[i] # f[j] } }

\* get_random_topics (utils.py 162-181)
get_random_topics(pool, num_topics) ==
  IF pool = << >> THEN [raised |-> TRUE, error |-> "topics_empty", results |-> {}]
  ELSE IF num_topics > Len(pool) \/ num_topics < 0
    THEN [raised |-> TRUE, error |-> "topics_sample", results |-> {}]
  ELSE [raised |-> FALSE, error |-> "none", results |-> Sample(pool, num_topics)]

\* load_examples and get_random_examples (utils.py 12-74, 184-227)
get_random_examples(file, num_examples) ==
  IF file.state # "ok" THEN [raised |-> TRUE, error |-> "examples_file", results |-> {}]
  ELSE IF Len(file.calls) = 0
    THEN [raised |-> TRUE, error |-> "examples_empty", results |-> {}]
  ELSE LET n == IF num_examples > Len(file.calls) THEN Len(file.calls) ELSE num_examples IN
         IF n < 0 THEN [raised |-> TRUE, error |-> "examples_sample", results |-> {}]
         ELSE [raised |-> FALSE, error |-> "none", results |-> Sample(file.calls, n)]

StartupStart ==
  /\ \E run \in StartupRuns :
       /\ topics_file = run.topics_file
       /\ examples_file = run.examples_file
       /\ schema_file = run.schema_file
       /\ FIXED_TOPICS = run.FIXED_TOPICS
       /\ NUM_TOPIC_SAMPLES = run.NUM_TOPIC_SAMPLES
       /\ NUM_EXAMPLE_SAMPLES = run.NUM_EXAMPLE_SAMPLES
       /\ config_MODEL_NAME = run.MODEL_NAME
  /\ startup_error = "none"
  /\ llm_pc = "call"
  /\ llm = NoLlm
  /\ schema = IllFormedSchema
  /\ topics = << >>
  /\ random_examples = << >>
  /\ ti = 1
  /\ ei = 1
  /\ pc = "import"
  /\ generated_resolved_script = None
  /\ generated_unresolved_script = None
  /\ validated_resolved_script = None
  /\ validated_unresolved_script = None
  /\ new_calls = << >>
  /\ output_json = [written |-> FALSE, calls |-> << >>]
  /\ aggregated = FALSE
  /\ uuid_counter = 0
  /\ gen_invocations = 0
  /\ visited = << >>
  /\ pair_start = 0
  /\ rejected = {}
  /\ last = NoLast

StartupIdle ==
  /\ topics_file = Missing
  /\ examples_file = Missing
  /\ schema_file = Missing
  /\ FIXED_TOPICS = FALSE
  /\ NUM_TOPIC_SAMPLES = 0
  /\ NUM_EXAMPLE_SAMPLES = 0
  /\ startup_error = "none"

\* generation_chains.py line 17, run when main's module is imported:
\* llm = get_llm(); its ValueError ends the process before main is called
ImportChains ==
  /\ pc = "import"
  /\ UNCHANGED <<tvars, cvars, svars, avars, fvars, mvars, nvars>>
  /\ LET model_name == Lower(config_MODEL_NAME)
         key == FirstKey(ModelMapKeys, model_name)
     IN IF key = << >>
          THEN /\ llm_pc' = "raised"
               /\ startup_error' = "get_llm"
               /\ pc' = "failed"
               /\ UNCHANGED llm
          ELSE /\ llm' = [class |-> ModelClass(key), model |-> model_name]
               /\ llm_pc' = "returned"
               /\ pc' = "load"
               /\ UNCHANGED startup_error
  /\ UNCHANGED <<schema, topics, random_examples, ti, ei,
                 generated_resolved_script, generated_unresolved_script,
                 validated_resolved_script, validated_unresolved_script,
                 new_calls, output_json, aggregated, uuid_counter, gen_invocations,
                 visited, pair_start, rejected, last>>
  /\ UNCHANGED <<config_MODEL_NAME, topics_file, examples_file, schema_file,
                 FIXED_TOPICS, NUM_TOPIC_SAMPLES, NUM_EXAMPLE_SAMPLES>>

\* the first statement of lines 40-65 that raises, "none" when none does
StartupError ==
  LET loaded == load_topics(topics_file)
      examples == get_random_examples(examples_file, NUM_EXAMPLE_SAMPLES)
  IN IF loaded.raised THEN "topics_file"
     ELSE IF examples.raised THEN examples.error
     ELSE IF schema_file.state # "ok" THEN "schema_file"
     ELSE IF FIXED_TOPICS THEN "none"
     ELSE get_random_topics(loaded.topics, NUM_TOPIC_SAMPLES).error

\* main, lines 40-65: an exception leaves main and ends the process
LoadInputs ==
  /\ pc = "load"
  /\ UNCHANGED <<tvars, cvars, svars, avars, fvars, lvars, mvars, nvars>>
  /\ startup_error' = StartupError
  /\ IF StartupError # "none"
       THEN /\ pc' = "failed"
            /\ UNCHANGED <<schema, topics, random_examples, visited>>
       ELSE /\ schema' = schema_file.schema
            /\ random_examples' \in
                 get_random_examples(examples_file, NUM_EXAMPLE_SAMPLES).results
            /\ IF FIXED_TOPICS
                 THEN topics' = FixedTopicList
                 ELSE topics' \in
                        get_random_topics(load_topics(topics_file).topics,
                                          NUM_TOPIC_SAMPLES).results
            /\ pc' = LoopStart(topics', random_examples')
            /\ visited' = IF LoopStart(topics', random_examples') = "save"
                             THEN << >> ELSE << <<1, 1>> >>
  /\ UNCHANGED <<ti, ei, generated_resolved_script, generated_unresolved_script,
                 validated_resolved_script, validated_unresolved_script,
                 new_calls, output_json, aggregated, uuid_counter, gen_invocations,
                 pair_start, rejected, last>>
  /\ UNCHANGED <<topics_file, examples_file, schema_file, FIXED_TOPICS,
                 NUM_TOPIC_SAMPLES, NUM_EXAMPLE_SAMPLES>>

(***************************************************************************)
(* Conversation simulation: main and save_results                          *)
(* (sequential_conversation/main.py, lines 107-230).                       *)
(***************************************************************************)
AgentTypes == {"rag", "society_of_mind", "simple"}

ScenarioTypes == {"default", "aggressive", "aggressive_en"}

\* number of parameters of each function main calls in its loop; none of
\* them has a default value
Parameters ==
  [create_rag_service_agent     |-> 5,
   create_society_of_mind_agent |-> 5,
   create_simple_service_agent  |-> 3,
   create_customer_agent        |-> 3,
   generate_initial_message     |-> 7,
   run_conversation             |-> 5]

\* number of positional arguments main passes in each of these calls
Arguments ==
  [create_rag_service_agent     |-> 5,
   create_society_of_mind_agent |-> 6,
   create_simple_service_agent  |-> 3,
   create_customer_agent        |-> 3,
   generate_initial_message     |-> 7,
   run_conversation             |-> 7]

\* number of values an agent creator returns; main unpacks two
ReturnedValues ==
  [create_rag_service_agent     |-> 2,
   create_society_of_mind_agent |-> 1,
   create_simple_service_agent  |-> 2,
   create_customer_agent        |-> 2]

\* a call with a wrong number of positional arguments raises TypeError
CallRaises(f) == Arguments[f] # Parameters[f]

\* "a, b = f(...)" raises unless f returns two values
UnpackRaises(f) == ReturnedValues[f] # 2

\* the creator main calls for args.agent_type (lines 150-172)
ServiceAgentCreator(agent_type) ==
  CASE agent_type = "rag"             -> "create_rag_service_agent"
    [] agent_type = "society_of_mind" -> "create_society_of_mind_agent"
    [] OTHER                          -> "create_simple_service_agent"

\* the keys of the dict run_conversation returns
ResultKeys ==
  {"input_settings", "messages", "summary_prompt", "autogen_summary", "cost",
   "agent_type"}

\* the dict run_conversation returns for the scenario sampled in iteration r
Result(r, agent_type) ==
  [keys |-> ResultKeys, input_settings |-> r, agent_type |-> agent_type, call_id |-> 0]

NoResultsFile == [written |-> FALSE, conversations |-> << >>]

SimStart ==
  /\ sim_pc = "loop"
  /\ args \in [iterations : 0..MaxIterations, agent_type : AgentTypes,
               scenario : ScenarioTypes]
  /\ sampling_raises \in BOOLEAN
  /\ sim_round = 0
  /\ results = << >>
  /\ results_file = NoResultsFile
  /\ sim_error = "none"
  /\ sim_error_round = 0
  /\ invocation_failed = FALSE
  /\ sim_uuid_counter = 0

SimIdle ==
  /\ sim_pc = "idle"
  /\ args = [iterations |-> 0, agent_type |-> "rag", scenario |-> "default"]
  /\ sampling_raises = FALSE
  /\ sim_round = 0
  /\ results = << >>
  /\ results_file = NoResultsFile
  /\ sim_error = "none"
  /\ sim_error_round = 0
  /\ invocation_failed = FALSE
  /\ sim_uuid_counter = 0

\* the call save_results(results, args) of line 205 after n iterations whose
\* conversations returned
SaveStart ==
  /\ sim_pc = "save"
  /\ args \in [iterations : 0..MaxIterations, agent_type : AgentTypes,
               scenario : ScenarioTypes]
  /\ sampling_raises = FALSE
  /\ sim_round = args.iterations
  /\ results = [i \in 1..args.iterations |-> Result(i, args.agent_type)]
  /\ results_file = NoResultsFile
  /\ sim_error = "none"
  /\ sim_error_round = 0
  /\ invocation_failed = FALSE
  /\ sim_uuid_counter = 0

\* mutant: the loop body catches the error and goes on with the next iteration
Propagate_caught(statement) ==
  /\ sim_pc' = "loop"
  /\ sim_error' = statement
  /\ sim_error_round' = sim_round
  /\ UNCHANGED <<args, sampling_raises, sim_round, results, results_file,
                 sim_uuid_counter>>

\* an error raised in the loop body: nothing in main catches it, so it leaves
\* main before results.append and before save_results
Propagate(statement) ==
  /\ sim_pc' = "aborted"
  /\ sim_error' = statement
  /\ sim_error_round' = sim_round
  /\ UNCHANGED <<args, sampling_raises, sim_round, results, results_file,
                 sim_uuid_counter>>

\* what a statement that returns leaves alone
Proceed(next_pc) ==
  /\ sim_pc' = next_pc
  /\ UNCHANGED <<args, sampling_raises, sim_round, results, results_file,
                 sim_error, sim_error_round, invocation_failed, sim_uuid_counter>>

\* for _ in range(args.iterations) (line 140), save_results after the loop
NextIteration ==
  /\ sim_pc = "loop"
  /\ UNCHANGED <<pvars, tvars, cvars, svars, avars, fvars, lvars, uvars, nvars>>
  /\ IF sim_round < args.iterations
       THEN /\ sim_round' = sim_round + 1
            /\ sim_pc' = "sample"
       ELSE /\ sim_round' = sim_round
            /\ sim_pc' = "save"
  /\ UNCHANGED <<args, sampling_raises, results, results_file, sim_error,
                 sim_error_round, invocation_failed, sim_uuid_counter>>

\* lines 142-147: the loader for args.scenario
SampleScenario ==
  /\ sim_pc = "sample"
  /\ UNCHANGED <<pvars, tvars, cvars, svars, avars, fvars, lvars, uvars, nvars>>
  /\ IF sampling_raises
       THEN Propagate("load_scenario_data") /\ UNCHANGED invocation_failed
       ELSE Proceed("create_service_agent")

\* lines 150-172
CreateServiceAgent ==
  /\ sim_pc = "create_service_agent"
  /\ UNCHANGED <<pvars, tvars, cvars, svars, avars, fvars, lvars, uvars, nvars>>
  /\ LET f == ServiceAgentCreator(args.agent_type)
     IN  IF CallRaises(f) \/ UnpackRaises(f)
           THEN Propagate(f) /\ UNCHANGED invocation_failed
           ELSE Proceed("create_customer_agent")

\* lines 174-178
CreateCustomerAgent ==
  /\ sim_pc = "create_customer_agent"
  /\ UNCHANGED <<pvars, tvars, cvars, svars, avars, fvars, lvars, uvars, nvars>>
  /\ IF CallRaises("create_customer_agent") \/ UnpackRaises("create_customer_agent")
       THEN Propagate("create_customer_agent") /\ UNCHANGED invocation_failed
       ELSE Proceed("generate_initial_message")

\* lines 181-189: one model invocation, which returns or raises
GenerateInitialMessage ==
  /\ sim_pc = "generate_initial_message"
  /\ UNCHANGED <<pvars, tvars, cvars, svars, avars, fvars, lvars, uvars, nvars>>
  /\ IF CallRaises("generate_initial_message")
       THEN Propagate("generate_initial_message") /\ UNCHANGED invocation_failed
       ELSE \E returns \in BOOLEAN :
              IF returns
                THEN Proceed("run_conversation")
                ELSE /\ invocation_failed' = TRUE
                     /\ Propagate("generate_initial_message")

\* lines 192-202: the call of run_conversation and results.append; a turn of
\* the conversation is a model invocation, which may raise
RunConversation ==
  /\ sim_pc = "run_conversation"
  /\ UNCHANGED <<pvars, tvars, cvars, svars, avars, fvars, lvars, uvars, nvars>>
  /\ IF CallRaises("run_conversation")
       THEN Propagate("run_conversation") /\ UNCHANGED invocation_failed
       ELSE \E returns \in BOOLEAN :
              IF returns
                THEN /\ results' = Append(results, Result(sim_round, args.agent_type))
                     /\ sim_pc' = "loop"
                     /\ UNCHANGED <<args, sampling_raises, sim_round, results_file,
                                    sim_error, sim_error_round, invocation_failed,
                                    sim_uuid_counter>>
                ELSE /\ invocation_failed' = TRUE
                     /\ Propagate("run_conversation")

\* save_results, lines 211-212: conversation["call_id"] = str(uuid.uuid4())
WithCallIds(rs, drawn) ==
  [i \in 1..Len(rs) |->
     [rs[i] EXCEPT !.keys = @ \cup {"call_id"}, !.call_id = drawn + i]]

\* save_results (lines 208-230): one timestamped file holding the list
SaveResults ==
  /\ sim_pc = "save"
  /\ UNCHANGED <<pvars, tvars, cvars, svars, avars, fvars, lvars, uvars, nvars>>
  /\ results' = WithCallIds(results, sim_uuid_counter)
  /\ sim_uuid_counter' = sim_uuid_counter + Len(results)
  /\ results_file' = [written |-> TRUE, conversations |-> results']
  /\ sim_pc' = "saved"
  /\ UNCHANGED <<args, sampling_raises, sim_round, sim_error, sim_error_round,
                 invocation_failed>>

(***************************************************************************)
(* Inner group chat of the society-of-mind agent: create_inner_groupchat   *)
(* (som_service_agent_creator.py, lines 151-202).  The society-of-mind     *)
(* agent hands the message it has to answer to the inner manager, whose    *)
(* loop is that of the conversation engine.                                *)
(***************************************************************************)
\* GroupChat(..., max_round=4, ...)
inner_max_round == 4

\* speakers = [rag_agent, conversational_agent, critic_agent]
InnerAgents == <<"rag_agent", "conversational_agent", "critic_agent">>

\* the agent that owns the inner manager and sends it the task
SocietyOfMind == "society_of_mind"

\* mutant: after the critic the retrieval agent starts over
custom_speaker_selection_func_cycle(last_speaker, messages) ==
  IF messages = << >> THEN "rag_agent"
  ELSE CASE last_speaker = "rag_agent"            -> "conversational_agent"
         [] last_speaker = "conversational_agent" -> "critic_agent"
         [] OTHER                                 -> "rag_agent"

\* lines 159-183
custom_speaker_selection_func(last_speaker, messages) ==
  IF messages = << >> THEN "rag_agent"
  ELSE CASE last_speaker = "rag_agent"            -> "conversational_agent"
         [] last_speaker = "conversational_agent" -> "critic_agent"
         [] last_speaker = "critic_agent"         -> "conversational_agent"
         [] OTHER                                 -> "rag_agent"

\* the inner manager appended `message` in round i: it stops on the
\* termination message (is_termination_msg=termination_msg, line 198) or in
\* the last round, else goes on
InnerAfterAppend(message, i) ==
  IF termination_msg(message) THEN "TERMINATED"
  ELSE IF i = inner_max_round - 1 THEN "ROUND_LIMIT_REACHED"
  ELSE "IN_PROGRESS"

\* what a message of the inner chat can hold: the contents of the outer chat
\* and a question
InnerContents == ChatContents \cup { <<"?">> }

InnerStart ==
  /\ inner_state = "AWAITING_TASK"
  /\ inner_messages = << >>
  /\ inner_round = 0
  /\ inner_last_speaker = SocietyOfMind

InnerIdle ==
  /\ inner_state = "idle"
  /\ inner_messages = << >>
  /\ inner_round = 0
  /\ inner_last_speaker = SocietyOfMind

\* the message the society-of-mind agent has to answer reaches the inner
\* manager, which appends it in round 0 (messages=[] before, line 190)
ReceiveTask ==
  /\ inner_state = "AWAITING_TASK"
  /\ UNCHANGED <<pvars, tvars, cvars, svars, avars, fvars, lvars, uvars, mvars, kvars, xvars>>
  /\ \E c \in InnerContents :
       LET message == Message(SocietyOfMind, c) IN
         /\ inner_messages' = <<message>>
         /\ inner_state' = InnerAfterAppend(message, 0)
  /\ UNCHANGED <<inner_round, inner_last_speaker>>

\* one inner turn: the selection function names the speaker, whose reply is
\* appended in the next round
InnerTurn ==
  /\ inner_state = "IN_PROGRESS"
  /\ UNCHANGED <<pvars, tvars, cvars, svars, avars, fvars, lvars, uvars, mvars, kvars, xvars>>
  /\ LET speaker == custom_speaker_selection_func(inner_last_speaker, inner_messages)
     IN  \E c \in InnerContents :
           LET message == Message(speaker, c) IN
             /\ inner_messages' = Append(inner_messages, message)
             /\ inner_round' = inner_round + 1
             /\ inner_last_speaker' = speaker
             /\ inner_state' = InnerAfterAppend(message, inner_round + 1)

\* the speakers a selection can be asked about: the three inner agents, the
\* society-of-mind agent and an agent that is none of them
Speakers == {"rag_agent", "conversational_agent", "critic_agent", SocietyOfMind, "other"}

\* a call of the selection function: with no message yet, or after a message
\* of any speaker
SelectionStart ==
  /\ inner_state = "select"
  /\ inner_round = 0
  /\ \/ /\ inner_messages = << >>
        /\ inner_last_speaker = SocietyOfMind
     \/ \E a \in Speakers, c \in InnerContents :
          /\ inner_messages = <<Message(a, c)>>
          /\ inner_last_speaker = a

\* groupchat.select_speaker followed by the selected agent's message, with
\* no round cap
SelectSpeaker ==
  /\ inner_state = "select"
  /\ inner_round < MaxSelections
  /\ UNCHANGED <<pvars, tvars, cvars, svars, avars, fvars, lvars, uvars, mvars, kvars, xvars>>
  /\ LET speaker == custom_speaker_selection_func(inner_last_speaker, inner_messages)
     IN  \E c \in InnerContents :
           /\ inner_messages' = Append(inner_messages, Message(speaker, c))
           /\ inner_round' = inner_round + 1
           /\ inner_last_speaker' = speaker
  /\ UNCHANGED inner_state

(***************************************************************************)
(* cleanup_json_files (push_hf/cleanup_convos.py, lines 9-70).             *)
(***************************************************************************)
CleanNames == {"a.json", "b.json"}

\* characters that are no word characters for the regular expression
NonWordChars == {" ", ".", NL}

IsWordChar(c) == c \notin NonWordChars

\* the pattern \bTERMINATE\b matches at position i of s
TokenAt(s, i) ==
  /\ i + 8 <= Len(s)
  /\ SubSeq(s, i, i + 8) = TERMINATE
  /\ (i = 1 \/ ~IsWordChar(s[i - 1]))
  /\ (i + 9 > Len(s) \/ ~IsWordChar(s[i + 9]))

\* re.sub(r"\bTERMINATE\b", "", content) from position i on
RECURSIVE SubFrom(_, _)
SubFrom(s, i) ==
  IF i > Len(s) THEN << >>
  ELSE IF TokenAt(s, i) THEN SubFrom(s, i + 9)
  ELSE <<s[i]>> \o SubFrom(s, i + 1)

\* lines 51-52: the substitution, then strip()
CleanedContent(content) == Strip(SubFrom(content, 1))

\* lines 54-57
NewRole(role) ==
  CASE role = "user"      -> "call_center_agent"
    [] role = "assistant" -> "customer"
    [] OTHER              -> role

\* lines 48-60 on one message: role and content as they stand in memory
CleanMessage(m) == [role |-> NewRole(m.role), content |-> CleanedContent(m.content)]

\* the conversations before place i that get a call_id
MissingBefore(data, i) == Cardinality({ j \in 1..(i - 1) : ~data[j].has_call_id })

\* lines 40-60: data as it stands in memory after the loop, the k-th new
\* call_id being the k-th value uuid.uuid4() returns
CleanData(data, drawn) ==
  [i \in 1..Len(data) |->
     [has_call_id |-> TRUE,
      call_id     |-> IF data[i].has_call_id THEN data[i].call_id
                      ELSE drawn + MissingBefore(data, i) + 1,
      messages    |-> [k \in 1..Len(data[i].messages) |-> CleanMessage(data[i].messages[k])]]]

\* mutant: the file is rewritten whether or not anything changed
Updated_always(data) == data = data

\* the flag `updated` after the loop (lines 39, 44, 60): set by a new call_id
\* and by a changed content
Updated(data) ==
  \E i \in 1..Len(data) :
    \/ ~data[i].has_call_id
    \/ \E k \in 1..Len(data[i].messages) :
         CleanedContent(data[i].messages[k].content) # data[i].messages[k].content

CleanRoles == {"user", "assistant", "tool"}

\* message contents: plain, the token alone, after a word, glued to a word,
\* in lower case, and a content with leading white space
CleanContents ==
  { <<"o", "k">>,
    TERMINATE,
    <<"o", "k", " ">> \o TERMINATE,
    <<"p">> \o TERMINATE,
    <<"t", "e", "r", "m", "i", "n", "a", "t", "e">>,
    <<" ", "o", "k">> }

CleanMessages == [role : CleanRoles, content : CleanContents]

Conversation(has, msgs) ==
  [has_call_id |-> has, call_id |-> IF has THEN 900 ELSE 0, messages |-> msgs]

\* the content of a file: not parseable, a document that is no list, or a
\* list of conversations
Unparsed == [kind |-> "unparsable", data |-> << >>]
NotAList == [kind |-> "dict", data |-> << >>]
ListOf(data) == [kind |-> "list", data |-> data]

\* list files: one conversation of up to two messages, or two conversations
\* of one message each
ListFiles ==
  { ListOf(<<Conversation(h, msgs)>>) :
      h \in BOOLEAN,
      msgs \in {<< >>} \cup { <<m>> : m \in CleanMessages }
                 \cup { <<m, n>> : m \in CleanMessages,
                                   n \in [role : {"user"}, content : {<<"o", "k">>, TERMINATE}] } }
    \cup
  { ListOf(<<Conversation(h1, <<m1>>), Conversation(h2, <<m2>>)>>) :
      h1 \in BOOLEAN, h2 \in BOOLEAN,
      m1 \in [role : {"user"}, content : {<<"o", "k">>, TERMINATE}],
      m2 \in [role : {"assistant"}, content : {<<"o", "k">>}] }

\* the second file of the directory
OtherFiles ==
  { Unparsed, NotAList,
    ListOf(<<Conversation(TRUE, <<[role |-> "user", content |-> <<"o", "k">>]>>)>>),
    ListOf(<<Conversation(FALSE, <<[role |-> "assistant", content |-> TERMINATE]>>)>>) }

CleanupStart ==
  /\ clean_pc = "call"
  /\ \E a \in ListFiles, b \in OtherFiles :
       directory = [n \in CleanNames |-> IF n = "a.json" THEN a ELSE b]
  /\ directory0 = directory
  /\ clean_files = << >>
  /\ clean_pos = 0
  /\ clean_run = 0
  /\ rewritten = {}
  /\ clean_uuid_counter = 0

CleanupIdle ==
  /\ clean_pc = "idle"
  /\ directory = [n \in CleanNames |-> Unparsed]
  /\ directory0 = directory
  /\ clean_files = << >>
  /\ clean_pos = 0
  /\ clean_run = 0
  /\ rewritten = {}
  /\ clean_uuid_counter = 0

\* line 20: glob.glob returns the files in any order
Glob ==
  /\ clean_pc \in {"call", "returned"}
  /\ clean_run < MaxCleanRuns
  /\ UNCHANGED <<pvars, tvars, cvars, svars, avars, fvars, lvars, uvars, mvars, ivars, xvars>>
  /\ clean_files' \in { <<"a.json", "b.json">>, <<"b.json", "a.json">> }
  /\ clean_pos' = 1
  /\ clean_run' = clean_run + 1
  /\ clean_pc' = "loop"
  /\ UNCHANGED <<directory, directory0, rewritten, clean_uuid_counter>>

\* lines 23-70: the loop body for one file
CleanFile ==
  /\ clean_pc = "loop"
  /\ clean_pos <= Len(clean_files)
  /\ UNCHANGED <<pvars, tvars, cvars, svars, avars, fvars, lvars, uvars, mvars, ivars, xvars>>
  /\ LET file_path == clean_files[clean_pos]
         file      == directory[file_path]
         cleaned   == CleanData(file.data, clean_uuid_counter)
     IN  IF file.kind = "list"
           THEN /\ clean_uuid_counter' =
                     clean_uuid_counter + MissingBefore(file.data, Len(file.data) + 1)
                /\ IF Updated(file.data)
                     THEN /\ directory' = [directory EXCEPT ![file_path] = ListOf(cleaned)]
                          /\ rewritten' = rewritten \cup {<<clean_run, file_path>>}
                     ELSE UNCHANGED <<directory, rewritten>>
           ELSE UNCHANGED <<directory, rewritten, clean_uuid_counter>>
  /\ clean_pos' = clean_pos + 1
  /\ UNCHANGED <<directory0, clean_files, clean_run, clean_pc>>

\* the loop over json_files is exhausted
CleanupReturns ==
  /\ clean_pc = "loop"
  /\ clean_pos > Len(clean_files)
  /\ UNCHANGED <<pvars, tvars, cvars, svars, avars, fvars, lvars, uvars, mvars, ivars, xvars>>
  /\ clean_pc' = "returned"
  /\ UNCHANGED <<directory, directory0, clean_files, clean_pos, clean_run, rewritten,
                 clean_uuid_counter>>

(***************************************************************************)
(* get_pdf_index and get_web_index (index_manager.py), called by each      *)
(* process at the start of main (main.py, lines 131-133).                  *)
(***************************************************************************)
Procs == {"p1", "p2"}

Collections == {"pdf_index", "web_index"}

\* mutant: the nodes of a new index do not reach the store
Populate_lost(count, docs) == count + 0 * docs

\* VectorStoreIndex.from_documents(docs, storage_context) and persist()
\* (lines 37-39, 68-70): the nodes of the documents are added to the
\* collection
Populate(count, docs) == count + docs

\* chroma_collection.count() > 0 (lines 27, 56)
Exists(count) == count > 0

IndexStart ==
  /\ proc_pc = [p \in Procs |-> "not_started"]
  /\ store \in [Collections -> {0, 3}]
  /\ store0 = store
  /\ populated = [c \in Collections |-> 0]
  /\ index_calls = [c \in Collections |-> 0]
  /\ overlap = FALSE
  /\ index_runs = 0

IndexIdle ==
  /\ proc_pc = [p \in Procs |-> "idle"]
  /\ store = [c \in Collections |-> 0]
  /\ store0 = store
  /\ populated = [c \in Collections |-> 0]
  /\ index_calls = [c \in Collections |-> 0]
  /\ overlap = FALSE
  /\ index_runs = 0

Running(p) == proc_pc[p] \notin {"not_started", "done", "idle"}

\* a process is started and reaches line 132; another process may be
\* running at that time
StartMain ==
  /\ index_runs < MaxIndexRuns
  /\ UNCHANGED <<pvars, tvars, cvars, svars, avars, fvars, lvars, uvars, mvars, ivars, kvars>>
  /\ \E p \in Procs :
       /\ proc_pc[p] \in {"not_started", "done"}
       /\ proc_pc' = [proc_pc EXCEPT ![p] = "pdf_check"]
       /\ overlap' = (overlap \/ \E q \in Procs \ {p} : Running(q))
  /\ index_runs' = index_runs + 1
  /\ UNCHANGED <<store, store0, populated, index_calls>>

\* the count() test of a call: load the existing index and return, or go on
\* to create it
Check(p, c, create_pc, return_pc) ==
  /\ index_calls' = [index_calls EXCEPT ![c] = @ + 1]
  /\ proc_pc' = [proc_pc EXCEPT ![p] = IF Exists(store[c]) THEN return_pc ELSE create_pc]
  /\ UNCHANGED <<store, store0, populated, overlap, index_runs>>

\* the else branch of a call: the documents are read, indexed and persisted
Create(p, c, return_pc) ==
  /\ \E docs \in {1, 2} : store' = [store EXCEPT ![c] = Populate(@, docs)]
  /\ populated' = [populated EXCEPT ![c] = @ + 1]
  /\ proc_pc' = [proc_pc EXCEPT ![p] = return_pc]
  /\ UNCHANGED <<store0, index_calls, overlap, index_runs>>

\* get_pdf_index, lines 23-30
PdfCheck ==
  /\ UNCHANGED <<pvars, tvars, cvars, svars, avars, fvars, lvars, uvars, mvars, ivars, kvars>>
  /\ \E p \in Procs :
       /\ proc_pc[p] = "pdf_check"
       /\ Check(p, "pdf_index", "pdf_create", "web_check")

\* get_pdf_index, lines 31-40
PdfCreate ==
  /\ UNCHANGED <<pvars, tvars, cvars, svars, avars, fvars, lvars, uvars, mvars, ivars, kvars>>
  /\ \E p \in Procs :
       /\ proc_pc[p] = "pdf_create"
       /\ Create(p, "pdf_index", "web_check")

\* get_web_index, lines 52-59
WebCheck ==
  /\ UNCHANGED <<pvars, tvars, cvars, svars, avars, fvars, lvars, uvars, mvars, ivars, kvars>>
  /\ \E p \in Procs :
       /\ proc_pc[p] = "web_check"
       /\ Check(p, "web_index", "web_create", "done")

\* get_web_index, lines 60-71
WebCreate ==
  /\ UNCHANGED <<pvars, tvars, cvars, svars, avars, fvars, lvars, uvars, mvars, ivars, kvars>>
  /\ \E p \in Procs :
       /\ proc_pc[p] = "web_create"
       /\ Create(p, "web_index", "done")

\* the subsystems modelled after the conversation simulation are not running
NewIdle == InnerIdle /\ CleanupIdle /\ IndexIdle

(***************************************************************************)
(* Specifications.                                                         *)
(***************************************************************************)
ExtIdle == AggIdle /\ FilterIdle /\ LlmIdle /\ StartupIdle /\ SimIdle /\ NewIdle

InitPipeline == PipelineStart /\ TermIdle /\ ChatIdle /\ ScenarioIdle /\ ExtIdle

NextPipeline ==
  \/ GenerateResolved
  \/ GenerateUnresolved
  \/ ValidateResolved
  \/ ValidateUnresolved
  \/ AddMetadataToScripts
  \/ GateResolved
  \/ GateUnresolved
  \/ SaveOutput
  \/ Aggregate

SpecPipeline == InitPipeline /\ [][NextPipeline]_vars

\* the run is never pre-empted for good: every statement that can execute does
FairSpecPipeline == SpecPipeline /\ WF_vars(NextPipeline)

PipelineIdle ==
  /\ schema = [well_formed |-> FALSE, required |-> {},
               properties |-> {}, additionalProperties |-> TRUE]
  /\ topics = << >>
  /\ random_examples = << >>
  /\ ti = 1
  /\ ei = 1
  /\ pc = "idle"
  /\ generated_resolved_script = None
  /\ generated_unresolved_script = None
  /\ validated_resolved_script = None
  /\ validated_unresolved_script = None
  /\ new_calls = << >>
  /\ output_json = [written |-> FALSE, calls |-> << >>]
  /\ aggregated = FALSE
  /\ uuid_counter = 0
  /\ gen_invocations = 0
  /\ visited = << >>
  /\ pair_start = 0
  /\ rejected = {}
  /\ last = NoLast

\* the four subsystems above are not running
CoreIdle == PipelineIdle /\ TermIdle /\ ChatIdle /\ ScenarioIdle

InitTerm == PipelineIdle /\ TermStart /\ ChatIdle /\ ScenarioIdle /\ ExtIdle

NextTerm == CallTerminationMsg

SpecTerm == InitTerm /\ [][NextTerm]_vars

InitChat == PipelineIdle /\ TermIdle /\ ChatStart /\ ScenarioIdle /\ ExtIdle

NextChat ==
  \/ InitiateChat
  \/ Turn
  \/ ReturnChatResult

SpecChat == InitChat /\ [][NextChat]_vars

\* every model invocation returns and the blocking calls go on
FairSpecChat == SpecChat /\ WF_vars(NextChat)

InitScenario == PipelineIdle /\ TermIdle /\ ChatIdle /\ ScenarioStart /\ ExtIdle

NextScenario ==
  \/ load_default_scenario_data
  \/ load_aggressive_scenario_data
  \/ load_aggressive_en_scenario_data

SpecScenario == InitScenario /\ [][NextScenario]_vars

InitPersona == PipelineIdle /\ TermIdle /\ ChatIdle /\ PersonaStart /\ ExtIdle

SpecPersona == InitPersona /\ [][NextScenario]_vars

InitAggregate == CoreIdle /\ AggStart /\ FilterIdle /\ LlmIdle /\ StartupIdle /\ SimIdle /\ NewIdle

NextAggregate ==
  \/ ListDir
  \/ AggregateFile
  \/ WriteAggregated

SpecAggregate == InitAggregate /\ [][NextAggregate]_vars

InitFilter == CoreIdle /\ AggIdle /\ FilterStart /\ LlmIdle /\ StartupIdle /\ SimIdle /\ NewIdle

NextFilter ==
  \/ ReadFile
  \/ EvaluateConversation
  \/ SortAndSave

SpecFilter == InitFilter /\ [][NextFilter]_vars

InitLlm == CoreIdle /\ AggIdle /\ FilterIdle /\ LlmStart /\ StartupIdle /\ SimIdle /\ NewIdle

NextLlm == get_llm

SpecLlm == InitLlm /\ [][NextLlm]_vars

InitStartup ==
  StartupStart /\ TermIdle /\ ChatIdle /\ ScenarioIdle /\ AggIdle /\ FilterIdle /\ SimIdle /\ NewIdle

NextStartup ==
  \/ ImportChains
  \/ LoadInputs
  \/ GenerateResolved
  \/ GenerateUnresolved
  \/ ValidateResolved
  \/ ValidateUnresolved
  \/ AddMetadataToScripts
  \/ GateResolved
  \/ GateUnresolved
  \/ SaveOutput
  \/ Aggregate

SpecStartup == InitStartup /\ [][NextStartup]_vars

InitSim ==
  CoreIdle /\ AggIdle /\ FilterIdle /\ LlmIdle /\ StartupIdle /\ SimStart /\ NewIdle

NextSim ==
  \/ NextIteration
  \/ SampleScenario
  \/ CreateServiceAgent
  \/ CreateCustomerAgent
  \/ GenerateInitialMessage
  \/ RunConversation
  \/ SaveResults

SpecSim == InitSim /\ [][NextSim]_vars

\* a pipeline run, or a call of save_results
InitIds ==
  \/ InitPipeline
  \/ CoreIdle /\ AggIdle /\ FilterIdle /\ LlmIdle /\ StartupIdle /\ SaveStart /\ NewIdle

NextIds ==
  \/ GenerateResolved
  \/ GenerateUnresolved
  \/ ValidateResolved
  \/ ValidateUnresolved
  \/ AddMetadataToScripts
  \/ GateResolved
  \/ GateUnresolved
  \/ SaveOutput
  \/ Aggregate
  \/ SaveResults

SpecIds == InitIds /\ [][NextIds]_vars

\* everything modelled up to the conversation simulation is not running
OldIdle == CoreIdle /\ AggIdle /\ FilterIdle /\ LlmIdle /\ StartupIdle /\ SimIdle

InitInner == OldIdle /\ InnerStart /\ CleanupIdle /\ IndexIdle

NextInner ==
  \/ ReceiveTask
  \/ InnerTurn

SpecInner == InitInner /\ [][NextInner]_vars

InitSelection == OldIdle /\ SelectionStart /\ CleanupIdle /\ IndexIdle

NextSelection == SelectSpeaker

SpecSelection == InitSelection /\ [][NextSelection]_vars

InitCleanup == OldIdle /\ InnerIdle /\ CleanupStart /\ IndexIdle

NextCleanup ==
  \/ Glob
  \/ CleanFile
  \/ CleanupReturns

SpecCleanup == InitCleanup /\ [][NextCleanup]_vars

InitIndex == OldIdle /\ InnerIdle /\ CleanupIdle /\ IndexStart

NextIndex ==
  \/ StartMain
  \/ PdfCheck
  \/ PdfCreate
  \/ WebCheck
  \/ WebCreate

SpecIndex == InitIndex /\ [][NextIndex]_vars

(***************************************************************************)
(* Properties of the generation pipeline.                                  *)
(***************************************************************************)
Calls(seq) == { seq[i] : i \in 1..Len(seq) }

AcceptedAllValid ==
  /\ \A d \in Calls(new_calls) : validate_json(d, schema)
  /\ \A d \in Calls(output_json.calls) : validate_json(d, schema)

AcceptedNeverModified ==
  /\ Len(new_calls') >= Len(new_calls)
  /\ \A i \in 1..Len(new_calls) : new_calls'[i] = new_calls[i]

\* C1: every document in the accepted list and in the written calls array
\* satisfies validate_json as it is stored (tagged), and a document once in
\* the accepted list is never changed or removed.
C1_AcceptedSatisfySchema == []AcceptedAllValid /\ [][AcceptedNeverModified]_vars

\* C1 witness: a written output holding an accepted script while another
\* tagged script of the run was not accepted
C1_Witness ==
  /\ output_json.written
  /\ Len(output_json.calls) >= 1
  /\ uuid_counter > Len(output_json.calls)

\* C2: no script the gate dropped is in the accepted list or in the output,
\* a pair whose generation or correction raised contributes no script, and
\* the output holds at most 2 * len(topics) * len(examples) calls.
C2_RejectedNeverInOutput ==
  /\ \A d \in Calls(new_calls) \cup Calls(output_json.calls) : d.call_id \notin rejected
  /\ last.raised \in {"gen_resolved", "gen_unresolved", "val_resolved", "val_unresolved"}
       => last.accepted = 0
  /\ Len(new_calls) <= 2 * Len(topics) * Len(random_examples)
  /\ Len(output_json.calls) <= 2 * Len(topics) * Len(random_examples)

\* C2 witness: a written, non-empty output of a run in which the gate dropped
\* a script and the correction of the last pair raised
C2_Witness ==
  /\ output_json.written
  /\ Len(output_json.calls) >= 1
  /\ rejected # {}
  /\ last.raised = "val_unresolved"

\* the (topic, example) pairs of the two nested loops, topic-major
AllPairsInOrder ==
  [k \in 1..(Len(topics) * Len(random_examples)) |->
     <<((k - 1) \div Len(random_examples)) + 1, ((k - 1) % Len(random_examples)) + 1>>]

BatchCompleted ==
  pc = "done" => /\ visited = AllPairsInOrder
                 /\ output_json.written
                 /\ output_json.calls = new_calls

C4_IsolationPerVariant ==
  /\ last.raised \in {"gen_unresolved", "val_unresolved"} => last.gated_resolved
  /\ last.raised \in {"gen_resolved", "val_resolved"} => last.gated_unresolved

\* C5 (as claimed): a finished run has made 2 * len(topics) * len(examples)
\* generation invocations, also when some invocations failed.
C5_GenerationAttempts ==
  pc = "done" => gen_invocations = 2 * Len(topics) * Len(random_examples)

(***************************************************************************)
(* Properties of termination_msg and of the conversation engine.           *)
(***************************************************************************)
\* str(x["content"]), the empty string when the key is absent
ContentText(x) ==
  IF ~x.has_content THEN << >>
  ELSE IF x.content.kind = "none" THEN <<"N", "o", "n", "e">>
  ELSE x.content.s

LetterOf(c) ==
  CASE c \in {"t", "T"} -> "T" [] c \in {"e", "E"} -> "E" [] c \in {"r", "R"} -> "R"
    [] c \in {"m", "M"} -> "M" [] c \in {"i", "I"} -> "I" [] c \in {"n", "N"} -> "N"
    [] c \in {"a", "A"} -> "A" [] OTHER -> "?"

\* the text ends in the nine letters of the token, in any letter case
EndsInToken(s) ==
  /\ Len(s) >= 9
  /\ \A i \in 1..9 : LetterOf(s[Len(s) - 9 + i]) = TERMINATE[i]

\* C6: termination_msg(x) is true exactly when x is a dict whose content text
\* ends in the token in any letter case; a token followed by a further
\* character, a non-dict and a missing or None content give false.
C6_TerminationSuffixMatch ==
  term_pc = "returned" =>
    /\ term_result = (term_x.is_dict /\ EndsInToken(ContentText(term_x)))
    /\ ~term_x.is_dict => ~term_result
    /\ (~term_x.has_content \/ term_x.content.kind = "none") => ~term_result

\* C6 witness: a lower-case token at the end of a longer content terminates
C6_Witness ==
  /\ term_pc = "returned"
  /\ term_result
  /\ term_x.content.s = <<"p", "t", "e", "r", "m", "i", "n", "a", "t", "e">>

TurnTerminates(m) == EndsInToken(ContentText(m))

NoTurnTerminates(history) == \A k \in 1..Len(history) : ~TurnTerminates(history[k])

ConfiguredCap == IF variant = "run_conversation" THEN 10 ELSE 8

\* C7: a conversation in which no turn ends in the token stops at the round
\* cap (10 in run_conversation, 8 in the archived script) and its transcript
\* holds exactly that many turns; no transcript ever holds more.
C7_RoundCapExact ==
  /\ Len(groupchat_messages) <= ConfiguredCap
  /\ (chat_result.returned /\ NoTurnTerminates(chat_result.chat_history)) =>
       /\ chat_state = "ROUND_LIMIT_REACHED"
       /\ Len(chat_result.chat_history) = ConfiguredCap

\* C7 witness: run_conversation returned a transcript of 10 turns none of
\* which ends in the token
C7_Witness ==
  /\ variant = "run_conversation"
  /\ chat_result.returned
  /\ NoTurnTerminates(chat_result.chat_history)
  /\ Len(chat_result.chat_history) = 10

\* C8: in run_conversation the customer's initial message is followed by the
\* turns of the loop, turn i (0-indexed) by the service agent when i is even
\* and by the customer agent when i is odd; no agent speaks twice in a row.
C8_RoundRobin ==
  variant = "run_conversation" =>
    /\ \A k \in 1..Len(groupchat_messages) :
         groupchat_messages[k].name =
           IF k = 1 THEN "customer_agent"
           ELSE IF (k - 2) % 2 = 0 THEN "service_agent" ELSE "customer_agent"
    /\ \A k \in 1..(Len(groupchat_messages) - 1) :
         groupchat_messages[k].name # groupchat_messages[k + 1].name

\* C8 witness: the initial message and at least four turns of the loop
C8_Witness ==
  /\ variant = "run_conversation"
  /\ Len(groupchat_messages) >= 5

EndsTerminatedOrAtCap ==
  variant = "run_conversation" =>
    /\ \A k \in 1..(Len(groupchat_messages) - 1) : ~TurnTerminates(groupchat_messages[k])
    /\ chat_result.returned =>
         LET history == chat_result.chat_history IN
           /\ history = groupchat_messages
           /\ Len(history) >= 1
           /\ Len(history) <= 10
           /\ chat_state \in {"TERMINATED", "ROUND_LIMIT_REACHED"}
           /\ chat_state = "TERMINATED" <=> TurnTerminates(history[Len(history)])
           /\ chat_state = "ROUND_LIMIT_REACHED" => Len(history) = 10

\* C9: every conversation whose model invocations all return ends; in
\* run_conversation no turn follows a turn that ends in the token, and a
\* returned conversation is in exactly one of TERMINATED (its last turn ends
\* in the token) and ROUND_LIMIT_REACHED (it does not, and the turn count is
\* the cap), with at least one turn and at most the cap.
C9_EndsTerminatedOrAtCap == []EndsTerminatedOrAtCap /\ <>chat_result.returned

\* C9 witness: the initial message itself ends in the token (lower case) and
\* the conversation returned with that single turn
C9_Witness ==
  /\ variant = "run_conversation"
  /\ chat_result.returned
  /\ chat_state = "TERMINATED"
  /\ Len(chat_result.chat_history) = 1
  /\ chat_result.chat_history[1].content.s = <<"t", "e", "r", "m", "i", "n", "a", "t", "e">>

(***************************************************************************)
(* Properties of the scenario loaders.                                     *)
(***************************************************************************)
TasksFileOf(l) == IF l = "aggressive_en" THEN tasks_en ELSE tasks_de

\* C10: in each of the three loaders the selected task is an element of the
\* task list of the topic key selected in the same call.
C10_TaskFromSelectedTopic ==
  scen_pc = "returned" =>
    /\ loader \in Loaders
    /\ selected_topic \in DOMAIN TasksFileOf(loader)
    /\ \E i \in 1..Len(TasksFileOf(loader)[selected_topic]) :
         TasksFileOf(loader)[selected_topic][i] = selected_task

\* C10 witness: the English loader returned a task while another topic of the
\* same file lists a task the selected topic does not have
C10_Witness ==
  /\ scen_pc = "returned"
  /\ loader = "aggressive_en"
  /\ \E t \in DOMAIN tasks_en : \E j \in 1..Len(tasks_en[t]) :
       /\ t # selected_topic
       /\ \A i \in 1..Len(tasks_en[selected_topic]) :
            tasks_en[selected_topic][i] # tasks_en[t][j]

(***************************************************************************)
(* Properties of the persona draws.                                        *)
(***************************************************************************)
\* the pool each key of the returned dict is drawn from, as the claim has it:
\* every entry of the configured list
PoolOf(l, k) ==
  LET personal_data == config.personal_data[DirOf(l)]
      service == config.service_agent_profile[DirOf(l)]
      customer == config.customer_agent_profile[DirOf(l)]
  IN CASE k = "selected_bank" -> Choice(personal_data["company_name"])
       [] k = "selected_customer_name" -> Choice(personal_data["person_name"])
       [] k = "selected_service_agent_name" -> ServiceAgentNames(l)
       [] k = "selected_media_type" -> { m.type : m \in Choice(config.media_type) }
       [] k = "selected_media_description" ->
            { m.description : m \in Choice(config.media_type) }
       [] k = "service_agent_characteristic" -> Descriptions(service["characteristics"])
       [] k = "service_agent_style" -> Choice(service["conversational_styles"])
       [] k = "service_agent_emotion" -> Choice(service["emotional_statuses"])
       [] k = "service_agent_experience" -> Descriptions(service["experience"])
       [] k = "service_agent_goal" -> Descriptions(service["goals"])
       [] k = "customer_agent_characteristic" -> Descriptions(customer["characteristics"])
       [] k = "customer_agent_style" -> Choice(customer["conversational_styles"])
       [] k = "customer_agent_emotion" -> Choice(customer["emotional_statuses"])
       [] k = "customer_agent_experience" -> Descriptions(customer["experience"])
       [] k = "customer_agent_goal" -> Descriptions(customer["goals"])

LoaderAction(l) ==
  CASE l = "default" -> load_default_scenario_data
    [] l = "aggressive" -> load_aggressive_scenario_data
    [] l = "aggressive_en" -> load_aggressive_en_scenario_data

\* one entry of each configured list (a medium is one entry of media_type)
Combinations(l) ==
  LET personal_data == config.personal_data[DirOf(l)]
      service == config.service_agent_profile[DirOf(l)]
      customer == config.customer_agent_profile[DirOf(l)]
  IN [selected_bank : Choice(personal_data["company_name"]),
      selected_customer_name : Choice(personal_data["person_name"]),
      selected_service_agent_name : ServiceAgentNames(l),
      selected_media : Choice(config.media_type),
      service_agent_characteristic : Descriptions(service["characteristics"]),
      service_agent_style : Choice(service["conversational_styles"]),
      service_agent_emotion : Choice(service["emotional_statuses"]),
      service_agent_experience : Descriptions(service["experience"]),
      service_agent_goal : Descriptions(service["goals"]),
      customer_agent_characteristic : Descriptions(customer["characteristics"]),
      customer_agent_style : Choice(customer["conversational_styles"]),
      customer_agent_emotion : Choice(customer["emotional_statuses"]),
      customer_agent_experience : Descriptions(customer["experience"]),
      customer_agent_goal : Descriptions(customer["goals"])]

\* C11: in every loader each returned attribute is an element of its pool,
\* and before the call every combination of one element per pool is a
\* possible result of every loader (each element is possible, and no draw
\* constrains another).
C11_IndependentChoices ==
  /\ scen_pc = "returned" =>
        \A k \in DOMAIN scenario : scenario[k] \in PoolOf(loader, k)
  /\ scen_pc = "call" =>
        \A l \in Loaders : \A c \in Combinations(l) :
          ENABLED (/\ LoaderAction(l)
                   /\ scen_pc' = "returned"
                   /\ scenario' = ReturnedDict(c))

(***************************************************************************)
(* Properties of aggregate_json_files.                                     *)
(***************************************************************************)
\* the files of the folder whose names end in .json
JsonFiles == { n \in DOMAIN input_folder : EndsWithJson(n) }

Occurrences(c, q) == Cardinality({ i \in 1..Len(q) : q[i] = c })

RECURSIVE SumOver(_, _)
SumOver(F(_), S) ==
  IF S = {} THEN 0
  ELSE LET n == CHOOSE x \in S : TRUE IN F(n) + SumOver(F, S \ {n})

C13_AggregatedIdsUnique ==
  agg_pc = "returned" =>
    \A i, j \in 1..Len(output_file.calls) :
      i # j => output_file.calls[i].call_id # output_file.calls[j].call_id

(***************************************************************************)
(* Properties of filter_conversations and of the score parser.             *)
(***************************************************************************)
\* the conversations read whose judge call returns a response
Scored == { i \in 1..Len(all_conversations) : ~all_conversations[i].judge.raises }

\* the place of the conversation with this call_id in the read order
ReadPlace(id) == CHOOSE i \in 1..Len(all_conversations) : all_conversations[i].call_id = id

Min(a, b) == IF a < b THEN a ELSE b

Numeric(t) ==
  LET u == Strip(t) IN
    \E k \in 0..1 :
      /\ k = 1 => (Len(u) >= 1 /\ u[1] = "-")
      /\ \A i \in (k + 1)..Len(u) : u[i] \in Digits \cup {"."}
      /\ Cardinality({ i \in (k + 1)..Len(u) : u[i] = "." }) <= 1
      /\ \E i \in (k + 1)..Len(u) : u[i] \in Digits

\* the number a numeric line denotes, in hundredths: each digit times the
\* power of ten of its place
NumberOf(t) ==
  LET u == Strip(t)
      dots == { i \in 1..Len(u) : u[i] = "." }
      dot == IF dots = {} THEN Len(u) + 1 ELSE CHOOSE i \in dots : TRUE
      place(i) == IF u[i] \notin Digits THEN 0
                  ELSE IF i < dot THEN DigitValue(u[i]) * Pow10(dot - 1 - i + 2)
                  ELSE DigitValue(u[i]) * Pow10(2 - (i - dot))
      magnitude == SumOver(place, 1..Len(u))
  IN IF u[1] = "-" THEN 0 - magnitude ELSE magnitude

\* the score the claim gives a response: the value of the first numeric
\* line, 0.0 when no line is numeric
ClaimedScore(text) ==
  LET lines == Split(Strip(text))
      numeric == { i \in 1..Len(lines) : Numeric(lines[i]) }
  IN IF numeric = {} THEN 0
     ELSE NumberOf(lines[CHOOSE i \in numeric : \A j \in numeric : i <= j])

Unparsable(text) ==
  LET lines == Split(Strip(text)) IN \A i \in 1..Len(lines) : ~Numeric(lines[i])

\* C15: every conversation whose judge call returns is scored, with the
\* value of the first numeric line of the response or 0.0 when there is
\* none; a conversation with an unparsable response is ranked, and no
\* conversation of another score is ranked after it.
C15_ParserDefaultsAndRanksLast ==
  filt_pc = "returned" =>
    LET ranking == evaluated_conversations IN
      /\ \A i \in Scored :
           \E k \in 1..Len(ranking) :
             /\ ranking[k].conv.call_id = all_conversations[i].call_id
             /\ ranking[k].score = ClaimedScore(all_conversations[i].judge.text)
      /\ \A k \in 1..Len(ranking) :
           Unparsable(ranking[k].conv.judge.text) =>
             /\ ranking[k].score = 0
             /\ \A m \in (k + 1)..Len(ranking) : ranking[m].score = 0

(***************************************************************************)
(* Properties of get_llm.                                                  *)
(***************************************************************************)
\* the keys and their providers in the order the claim declares them
DeclaredOrder ==
  <<[key |-> <<"g", "p", "t">>, provider |-> "ChatOpenAI"],
    [key |-> <<"g", "e", "m", "i", "n", "i">>, provider |-> "ChatVertexAI"],
    [key |-> <<"c", "l", "a", "u", "d", "e">>, provider |-> "ChatAnthropic"],
    [key |-> <<"s", "o", "n", "n", "e", "t">>, provider |-> "ChatAnthropic"],
    [key |-> <<"h", "a", "i", "k", "u">>, provider |-> "ChatAnthropic"],
    [key |-> <<"n", "v", "i", "d", "i", "a">>, provider |-> "ChatNVIDIA"],
    [key |-> <<"f", "i", "r", "e", "w", "o", "r", "k", "s">>, provider |-> "ChatFireworks"],
    [key |-> <<"l", "l", "a", "m", "a">>, provider |-> "ChatGroq"],
    [key |-> <<"g", "e", "m", "m", "a">>, provider |-> "ChatGroq"]>>

\* the places of the declared keys that occur in the lower-cased name
Matching == { i \in 1..Len(DeclaredOrder) :
                IsSubstring(DeclaredOrder[i].key, Lower(config_MODEL_NAME)) }

\* C16: get_llm returns the provider of the first declared key that is a
\* substring of the lower-cased model name, built for the lower-cased name,
\* and raises exactly when no declared key is a substring.
C16_FirstMatchWins ==
  /\ llm_pc = "raised" <=> (llm_pc # "call" /\ Matching = {})
  /\ llm_pc = "returned" =>
        LET first == CHOOSE i \in Matching : \A j \in Matching : i <= j IN
          /\ llm.class = DeclaredOrder[first].provider
          /\ llm.model = Lower(config_MODEL_NAME)

\* C16 witness: a name that holds both "nvidia" and "llama", in upper case
\* and with llama first, resolved to the nvidia provider
C16_Witness ==
  /\ llm_pc = "returned"
  /\ config_MODEL_NAME = <<"L", "l", "a", "m", "a">> \o <<"N", "V", "I", "D", "I", "A">>
  /\ llm.class = "ChatNVIDIA"

(***************************************************************************)
(* Properties of the start of a pipeline run.                              *)
(***************************************************************************)
FileDefect(file) == file.state \in {"missing", "unparseable"}

TopicPoolEmpty == topics_file.state = "ok" /\ topics_file.topics = << >>

ExamplePoolEmpty == examples_file.state = "ok" /\ examples_file.calls = << >>

NoProviderKey ==
  \A i \in 1..Len(DeclaredOrder) :
    ~IsSubstring(DeclaredOrder[i].key, Lower(config_MODEL_NAME))

\* the run ended with an error before the loop: no generation invocation,
\* no output file, no aggregated corpus
EndsBeforeGeneration ==
  /\ pc \in {"import", "load", "failed"}
  /\ pc = "failed" => startup_error # "none"
  /\ gen_invocations = 0
  /\ ~output_json.written
  /\ ~aggregated

\* the claim as stated: a missing or malformed topics, examples or schema
\* file, an empty topic or example pool, or a model name without provider
\* key ends the run before any generation invocation and before any write.
C17_StartupFailuresFatal_asStated ==
  (\/ FileDefect(topics_file) \/ FileDefect(examples_file) \/ FileDefect(schema_file)
   \/ TopicPoolEmpty \/ ExamplePoolEmpty \/ NoProviderKey)
    => EndsBeforeGeneration

\* C17 (amended): a topics, examples or schema file that is missing or not
\* parseable as JSON, an empty example pool, an empty topic pool while the
\* topics are sampled from it (FIXED_TOPICS unset), or a model name without
\* provider key ends the run with an error before any generation invocation
\* and without writing the output file or the aggregated corpus.
C17_StartupFailuresFatal ==
  (\/ FileDefect(topics_file) \/ FileDefect(examples_file) \/ FileDefect(schema_file)
   \/ (TopicPoolEmpty /\ ~FIXED_TOPICS) \/ ExamplePoolEmpty \/ NoProviderKey)
    => EndsBeforeGeneration

\* C17 witness: with fixed topics, sound topics and examples files and a
\* known model, the schema file is not parseable and the run has failed on it
C17_Witness ==
  /\ pc = "failed"
  /\ startup_error = "schema_file"
  /\ FIXED_TOPICS
  /\ schema_file = Unparseable
  /\ llm_pc = "returned"

(***************************************************************************)
(* Conversation simulation: errors and results.                            *)
(***************************************************************************)
\* C18: an error raised during iteration k of main's loop is not caught: the
\* run has ended at that iteration, no later iteration was started, and no
\* results file has been written, so the results held so far are lost.
C18_ErrorAbortsRun ==
  sim_error # "none" =>
    /\ sim_pc = "aborted"
    /\ sim_round = sim_error_round
    /\ results_file = NoResultsFile

\* C18 witness: the model invocation for the initial message raised in an
\* iteration that is not the last one asked for, and the run has ended
C18_Witness ==
  /\ sim_pc = "aborted"
  /\ sim_error = "generate_initial_message"
  /\ invocation_failed
  /\ sim_error_round < args.iterations
  /\ results_file = NoResultsFile

\* the results file holds n results in iteration order, each with its input
\* settings, transcript, summary, cost and a call_id
HoldsResultsInOrder(n) ==
  /\ results_file.written
  /\ Len(results_file.conversations) = n
  /\ \A i \in 1..n :
       /\ results_file.conversations[i].input_settings = i
       /\ {"input_settings", "messages", "autogen_summary", "cost", "call_id"}
            \subseteq results_file.conversations[i].keys

\* C19: a run with N >= 1 iterations in which no model invocation fails (and
\* whose scenario files are sound) does not end in an error, for any agent
\* type, and once it has ended the results file holds the N results in order.
C19_AllIterationsSaved ==
  (args.iterations >= 1 /\ ~invocation_failed /\ ~sampling_raises) =>
    /\ sim_pc # "aborted"
    /\ sim_pc = "saved" => HoldsResultsInOrder(args.iterations)

(***************************************************************************)
(* Identifiers.                                                            *)
(***************************************************************************)
\* no two documents of the list share a call_id, and each call_id is one of
\* the first `drawn` values uuid.uuid4() returned
OwnFreshIds(docs, drawn) ==
  /\ \A i \in 1..Len(docs) :
       /\ "call_id" \in docs[i].keys
       /\ docs[i].call_id \in 1..drawn
  /\ \A i, j \in 1..Len(docs) : i # j => docs[i].call_id # docs[j].call_id

\* C20: no two accepted call scripts of a pipeline output and no two
\* conversations of a results file share a call_id; every document carries an
\* identifier the program drew for it, never the value the model wrote; and
\* the two scripts of one pair carry different identifiers.
C20_IdentifiersUnique ==
  /\ OwnFreshIds(new_calls, uuid_counter)
  /\ OwnFreshIds(output_json.calls, uuid_counter)
  /\ pc \in {"gate_resolved", "gate_unresolved"} =>
       /\ validated_resolved_script.call_id \in 1..uuid_counter
       /\ validated_unresolved_script.call_id \in 1..uuid_counter
       /\ validated_resolved_script.call_id # validated_unresolved_script.call_id
  /\ sim_pc = "saved" => OwnFreshIds(results, sim_uuid_counter)
  /\ OwnFreshIds(results_file.conversations, sim_uuid_counter)

\* C20 witness: the pipeline wrote an output that holds both scripts of a
\* pair and a script of another pair
C20_Witness ==
  /\ output_json.written
  /\ Len(output_json.calls) >= 3
  /\ \E i \in 1..Len(output_json.calls) - 1 :
       /\ output_json.calls[i].topic = output_json.calls[i + 1].topic
       /\ output_json.calls[i].resolved
       /\ ~output_json.calls[i + 1].resolved

\* the results file of a save_results call holds two conversations
C20_ResultsFileCase ==
  /\ sim_pc = "saved"
  /\ results_file.written
  /\ Len(results_file.conversations) >= 2

(***************************************************************************)
(* Inner group chat.                                                       *)
(***************************************************************************)
\* the speakers of the inner turns, the task message apart
InnerSpeakers == [k \in 1..(Len(inner_messages) - 1) |-> inner_messages[k + 1].name]

\* C21: the first inner turn goes to the retrieval agent, and an inner run
\* that reaches the cap of 4 rounds has had the speakers retrieval agent,
\* drafting agent, critic agent, drafting agent, ending with the drafting
\* agent's second turn.
C21_InnerOrderEndsWithDraft ==
  /\ Len(inner_messages) >= 2 => InnerSpeakers[1] = "rag_agent"
  /\ inner_state = "ROUND_LIMIT_REACHED" =>
       /\ InnerSpeakers =
            <<"rag_agent", "conversational_agent", "critic_agent", "conversational_agent">>
       /\ inner_messages[Len(inner_messages)].name = "conversational_agent"

\* the speaker the table of the claim names after `previous`
SelectedAfter(previous) ==
  CASE previous = "rag_agent"            -> "conversational_agent"
    [] previous = "conversational_agent" -> "critic_agent"
    [] previous = "critic_agent"         -> "conversational_agent"
    [] OTHER                         -> "rag_agent"

InnerAgentNames == {"rag_agent", "conversational_agent", "critic_agent"}

\* C29: every selected speaker is the one the table names for the last
\* speaker alone (the retrieval agent when there is no message yet); once an
\* inner agent has spoken the retrieval agent is not selected again, the
\* critic never speaks twice in a row and no agent follows itself.
C29_SelectionByLastSpeaker ==
  /\ (Len(inner_messages) = inner_round /\ inner_round >= 1) =>
       inner_messages[1].name = "rag_agent"
  /\ \A k \in 1..(Len(inner_messages) - 1) :
       /\ inner_messages[k + 1].name = SelectedAfter(inner_messages[k].name)
       /\ inner_messages[k + 1].name # inner_messages[k].name
       /\ ~(inner_messages[k].name = "critic_agent"
              /\ inner_messages[k + 1].name = "critic_agent")
       /\ inner_messages[k].name \in InnerAgentNames =>
            \A j \in (k + 1)..Len(inner_messages) : inner_messages[j].name # "rag_agent"

\* C29 witness: after a message of the critic the drafting agent, the critic
\* and the drafting agent again were selected
C29_Witness ==
  /\ inner_state = "select"
  /\ inner_round = 3
  /\ Len(inner_messages) = 4
  /\ inner_messages[1].name = "critic_agent"
  /\ inner_messages[2].name = "conversational_agent"
  /\ inner_messages[3].name = "critic_agent"
  /\ inner_messages[4].name = "conversational_agent"

(***************************************************************************)
(* cleanup_json_files.                                                     *)
(***************************************************************************)
\* the files that held a list of conversations before the first run
ListFileNames == { f \in CleanNames : directory0[f].kind = "list" }

\* a run of cleanup_json_files has processed the directory
CleanupDone == clean_pc = "returned" /\ clean_run >= 1

\* C22: after cleanup, in every list file every message that had role "user"
\* has role "call_center_agent" and every message that had role "assistant"
\* has role "customer" on disk, whatever else the file needed.
C22_RolesRemappedOnDisk ==
  CleanupDone =>
    \A f \in ListFileNames :
      \A i \in 1..Len(directory0[f].data) :
        \A k \in 1..Len(directory0[f].data[i].messages) :
          LET before == directory0[f].data[i].messages[k].role
              after  == directory[f].data[i].messages[k].role
          IN  /\ before = "user" => after = "call_center_agent"
              /\ before = "assistant" => after = "customer"

\* C23: after cleanup of a list file every conversation has a call_id, an
\* existing one unchanged; no message content contains the token and none
\* satisfies the termination predicate of the conversation engine.
C23_TokenRemovedAndIdsAdded ==
  CleanupDone =>
    \A f \in ListFileNames :
      \A i \in 1..Len(directory[f].data) :
        /\ directory[f].data[i].has_call_id
        /\ directory0[f].data[i].has_call_id =>
             directory[f].data[i].call_id = directory0[f].data[i].call_id
        /\ \A k \in 1..Len(directory[f].data[i].messages) :
             LET content == directory[f].data[i].messages[k].content
             IN  /\ ~Contains(content, TERMINATE)
                 /\ ~termination_msg(Message("customer_agent", content))

\* C30: only the first run over a directory rewrites files, and only list
\* files; a later run changes nothing on disk; a file that is no list of
\* conversations or cannot be parsed stays as it was.
C30_CleanupIdempotent ==
  /\ [](\A w \in rewritten : w[1] = 1 /\ w[2] \in ListFileNames)
  /\ [](\A f \in CleanNames \ ListFileNames : directory[f] = directory0[f])
  /\ [][clean_run >= 2 => directory' = directory]_vars

\* C30 witness: the first run rewrote a.json, b.json is no list, and a
\* second run has gone over the directory
C30_Witness ==
  /\ clean_pc = "returned"
  /\ clean_run = 2
  /\ <<1, "a.json">> \in rewritten
  /\ directory0["b.json"] = NotAList
  /\ directory["a.json"] # directory0["a.json"]

(***************************************************************************)
(* Sampling of topics and examples.                                        *)
(***************************************************************************)
\* the files are there and parse, the pools are not empty, the model is known
SoundInputs ==
  /\ ~FileDefect(topics_file) /\ ~FileDefect(examples_file) /\ ~FileDefect(schema_file)
  /\ ~TopicPoolEmpty /\ ~ExamplePoolEmpty /\ ~NoProviderKey

\* main has got past line 65
InputsLoaded == pc \notin {"import", "load", "failed"}

\* seq holds n distinct entries of pool
DistinctEntries(seq, n, pool) ==
  /\ Len(seq) = n
  /\ \A i \in 1..Len(seq) : \E j \in 1..Len(pool) : seq[i] = pool[j]
  /\ \A i, j \in 1..Len(seq) : i # j => seq[i] # seq[j]

C25_PopulatedOnceWhenSequential ==
  \A c \in Collections :
    /\ ~overlap =>
         /\ populated[c] <= 1
         /\ (Exists(store0[c]) => populated[c] = 0)
         /\ ((\A p \in Procs : ~Running(p)) /\ index_calls[c] >= 1) =>
              /\ Exists(store[c])
              /\ ~Exists(store0[c]) => populated[c] = 1
    /\ populated[c] >= 2 => overlap

\* C25 witness: two processes started together against an empty store both
\* saw count() == 0 for the PDF collection and both populated it
C25_Witness ==
  /\ overlap
  /\ store0["pdf_index"] = 0
  /\ index_runs = 2
  /\ populated["pdf_index"] = 2
  /\ index_calls["pdf_index"] = 2

\* a third process, started after two others had ended one after the
\* other, only loaded both indexes
C25_SequentialCase ==
  /\ ~overlap
  /\ index_runs = 3
  /\ store0 = [c \in Collections |-> 0]
  /\ populated = [c \in Collections |-> 1]
  /\ index_calls = [c \in Collections |-> 3]

(***************************************************************************)
(* Order of the pipeline.                                                  *)
(***************************************************************************)
\* the place of a stage in the loop body, 0 for a position after the loops
StageRank(p) ==
  CASE p = "gen_resolved"    -> 1
    [] p = "gen_unresolved"  -> 2
    [] p = "val_resolved"    -> 3
    [] p = "val_unresolved"  -> 4
    [] p = "tag"             -> 5
    [] p = "gate_resolved"   -> 6
    [] p = "gate_unresolved" -> 7
    [] OTHER                 -> 0

\* a step inside one tuple goes to the next stage; a new tuple starts with
\* generation
StagesInOrder ==
  /\ (visited' = visited /\ StageRank(pc') > 0) => StageRank(pc') = StageRank(pc) + 1
  /\ visited' # visited => pc' = "gen_resolved"
  /\ gen_invocations' # gen_invocations => StageRank(pc) \in {1, 2}

\* a script is appended only by its gate, and it is the validated script
\* with its metadata
GatesCorrectedScript ==
  new_calls' # new_calls =>
    \/ /\ pc = "gate_resolved"
       /\ MetaKeys \subseteq validated_resolved_script.keys
       /\ new_calls' = Append(new_calls, validated_resolved_script)
    \/ /\ pc = "gate_unresolved"
       /\ MetaKeys \subseteq validated_unresolved_script.keys
       /\ new_calls' = Append(new_calls, validated_unresolved_script)

\* no tuple is started twice, and each start makes at most two generation
\* invocations
NoRetry ==
  /\ \A i, j \in 1..Len(visited) : i # j => visited[i] # visited[j]
  /\ gen_invocations <= 2 * Len(visited)

\* the output is written after the last tuple, aggregation after the output
WrittenAfterAllTuples ==
  /\ output_json.written =>
       /\ Len(visited) = Len(topics) * Len(random_examples)
       /\ pc \in {"aggregate", "done"}
       /\ output_json.calls = new_calls
  /\ aggregated => output_json.written /\ pc = "done"
  /\ pc = "done" => output_json.written /\ aggregated

\* C26: in every tuple the stages run in the order generate, validate, tag,
\* gate, each at most once; the script tagged and gated is the validated
\* one; the output file is written once, after every tuple was processed and
\* also when nothing was accepted; aggregation runs after the write.
C26_OneShotOrdered ==
  /\ [][StagesInOrder /\ GatesCorrectedScript]_vars
  /\ [](NoRetry /\ WrittenAfterAllTuples)
  /\ [][output_json' # output_json => (~output_json.written /\ pc = "save")]_vars

\* C26 witness: a run of at least two tuples ended with an output file that
\* holds no script, one tuple having failed in a stage
C26_Witness ==
  /\ pc = "done"
  /\ output_json.written
  /\ output_json.calls = << >>
  /\ Len(visited) >= 2
  /\ last.raised # "none"

(***************************************************************************)
(* Failures of single files and conversations in filter_conversations.     *)
(***************************************************************************)
\* a file raises inside its try block: it cannot be read, or a media type
\* is asked for and one of its conversations has no input_settings
FileFails(file) ==
  \/ ~file.readable
  \/ /\ media_type # "None"
     /\ \E i \in 1..Len(file.conversations) : ~file.conversations[i].input_settings

\* the conversations of the files that do not fail, the media type applied
Remaining ==
  { c \in UNION { { json_files[f].conversations[i] : i \in 1..Len(json_files[f].conversations) } :
                  f \in { g \in 1..Len(json_files) : ~FileFails(json_files[g]) } } :
      media_type # "None" => c.selected_media_type = media_type }

\* the remaining conversations whose judge call returns
Rankable == { c \in Remaining : ~c.judge.raises }

\* C27: a failing file removes its own conversations only and a failing
\* judge call removes its own conversation only; every other conversation is
\* scored and ranked, the output file is written, and every written
\* conversation carries the score it was ranked by as llm_rating.
C27_FailuresIsolated ==
  filt_pc = "returned" =>
    LET out == filtered_file.conversations
        ranked == { evaluated_conversations[k].conv.call_id :
                    k \in 1..Len(evaluated_conversations) }
    IN /\ filtered_file.written
       /\ ranked = { c.call_id : c \in Rankable }
       /\ Len(evaluated_conversations) = Cardinality(Rankable)
       /\ Len(out) = Min(top_n, Cardinality(Rankable))
       /\ \A k \in 1..Len(evaluated_conversations) :
            LET pair == evaluated_conversations[k] IN
              /\ pair.conv.rated
              /\ pair.conv.llm_rating = pair.score
              /\ \E c \in Rankable : /\ c.call_id = pair.conv.call_id
                                     /\ pair.score = overall_score(c.judge.text)
       /\ \A i \in 1..Len(out) :
            /\ i <= Len(evaluated_conversations)
            /\ out[i] = evaluated_conversations[i].conv

\* C27 witness: one file failed, a judge call failed in the other file, and
\* the conversation left over was written with its score
C27_Witness ==
  /\ filt_pc = "returned"
  /\ \E f \in 1..Len(json_files) : FileFails(json_files[f])
  /\ \E c \in Remaining : c.judge.raises
  /\ Len(filtered_file.conversations) = 1
  /\ filtered_file.conversations[1].rated

\* the failing file of the witness holds a conversation that was filtered
\* before the one without input_settings
C27_FilterFailureCase ==
  /\ filt_pc = "returned"
  /\ media_type = "email"
  /\ \E f \in 1..Len(json_files) :
       /\ json_files[f].readable
       /\ Len(json_files[f].conversations) = 2
       /\ json_files[f].conversations[1].selected_media_type = "email"
       /\ ~json_files[f].conversations[2].input_settings

(***************************************************************************)
(* Metadata and order of the accepted scripts.                             *)
(***************************************************************************)
\* <<t1, e1>> comes before <<t2, e2>> in topic-major order
PairBefore(a, b) == a[1] < b[1] \/ (a[1] = b[1] /\ a[2] < b[2])

\* the script appended by this step carries the metadata of the iteration
\* and of the branch of the gate that appended it
AppendedCarriesMetadata ==
  new_calls' # new_calls =>
    /\ Len(new_calls') = Len(new_calls) + 1
    /\ SubSeq(new_calls', 1, Len(new_calls)) = new_calls
    /\ pc \in {"gate_resolved", "gate_unresolved"}
    /\ visited[Len(visited)] = <<ti, ei>>
    /\ LET script == new_calls'[Len(new_calls')] IN
         /\ script.resolved = (pc = "gate_resolved")
         /\ script.topic = topics[ti]
         /\ script.model = MODEL_NAME
         /\ script.instruct_lang = INSTRUCT_LANG
         /\ script.examples = InputFileName
         /\ MetaKeys \subseteq script.keys

\* the scripts of earlier pairs stand ahead of pair_start; behind it stands
\* at most the resolved script of the running pair, ahead of the unresolved
\* one that may follow
PairInOrder ==
  /\ pair_start <= Len(new_calls)
  /\ Len(new_calls) <= pair_start + 2
  /\ Len(new_calls) > pair_start =>
       /\ StageRank(pc) \in {0, 7}
       /\ new_calls[pair_start + 1].topic = topics[ti]
       /\ new_calls[pair_start + 1].resolved \/ Len(new_calls) = pair_start + 1
  /\ Len(new_calls) = pair_start + 2 =>
       /\ new_calls[pair_start + 1].resolved
       /\ ~new_calls[pair_start + 2].resolved
       /\ new_calls[pair_start + 1].call_id < new_calls[pair_start + 2].call_id
  /\ (Len(new_calls) = pair_start + 1 /\ StageRank(pc) = 7) =>
       new_calls[pair_start + 1].resolved

\* the pairs are started in topic-major order, and the accepted scripts
\* stand in the order of their topics and of their tagging
AcceptedInOrder ==
  /\ \A i, j \in 1..Len(visited) : i < j => PairBefore(visited[i], visited[j])
  /\ \A i, j \in 1..Len(new_calls) :
       i < j => /\ \E a, b \in 1..Len(topics) :
                     /\ a <= b
                     /\ topics[a] = new_calls[i].topic
                     /\ topics[b] = new_calls[j].topic
                /\ new_calls[i].call_id < new_calls[j].call_id

\* C28: every accepted script has resolved true when the resolved branch
\* produced it and false when the unresolved branch did, the topic of its
\* iteration, and the model and instruct_lang of the configuration; the
\* accepted list is in topic-major order, then by example, the resolved
\* script of a pair ahead of the unresolved one.
C28_MetadataAndOrder ==
  /\ [][AppendedCarriesMetadata]_vars
  /\ [](PairInOrder /\ AcceptedInOrder)
  /\ [][pair_start' # pair_start =>
          (visited' # visited \/ pc' = "save") /\ pair_start' = Len(new_calls')]_vars

\* C28 witness: both scripts of one pair and the resolved script of a later
\* pair of another topic were accepted
C28_Witness ==
  /\ pc = "done"
  /\ Len(new_calls) = 3
  /\ new_calls[1].resolved /\ ~new_calls[2].resolved /\ new_calls[3].resolved
  /\ new_calls[1].topic = new_calls[2].topic
  /\ new_calls[2].topic # new_calls[3].topic
  /\ output_json.calls = new_calls

====
